---------------------------- MODULE Spec2Model ----------------------------
(***************************************************************************)
(* SystemInspector: the systemDiff backend (src/systemDiff/backend/src/    *)
(* app.py).  The state is the ProjectAnalyzer's project map, its on-disk   *)
(* projects cache, the upload folder's archive files and the clock; the    *)
(* actions are the analyzer's methods and the REST routes that call them.  *)
(*                                                                         *)
(*   SpecDiff  two loaded projects with arbitrary manifests, compared      *)
(*   Spec      the store driven through its API, one whole call per step   *)
(*   SpecConc  two threads stepping through the calls, with the store lock *)
(***************************************************************************)
EXTENDS Integers, Sequences, FiniteSets, TLC

VARIABLES
    fs,        \* the archive files on disk: tar path -> file
    projects,  \* ProjectAnalyzer.projects: project id -> project_info
    cache,     \* the projects cache file (projects_cache_json)
    now,       \* the clock datetime.now() reads
    last,      \* the call that completed last: its arguments, exception, answer
    sweep,     \* a list_projects request between its sweep and its listing
    lock,      \* ProjectAnalyzer._lock: the thread that holds it, its depth
    pc,        \* per thread: the place in the call it is running
    loc,       \* per thread: the call's arguments and local variables
    rec        \* the SystemRecorder: mode, config, manifest, and the disk it scans

vars == <<fs, projects, cache, now, last, sweep, lock, pc, loc, rec>>

(***************************************************************************)
(* Bounds of the model.                                                    *)
(***************************************************************************)
NumFilePaths == 2
NumHashes == 2
MaxTime == 3

AllFilePaths == <<"/x/a.txt", "/x/b.txt", "/etc/app.conf", "/x/noext">>
AllHashes == <<"h1", "h2", "h3", "h4">>

FilePaths == {AllFilePaths[i] : i \in 1..NumFilePaths}

\* the project ids and the file names the requests use
Ids == {"p1", "p2"}
Filenames == {"a.tar.gz"}

\* app.config['UPLOAD_FOLDER']
UPLOAD_FOLDER == "/tmp/systemdiff_uploads"

\* upload_project: os.path.join(UPLOAD_FOLDER, f"{project_id}_{filename}")
upload_filepath(project_id, filename) ==
    UPLOAD_FOLDER \o "/" \o project_id \o "_" \o filename

\* the archive paths of the model: where the uploads of the project ids land
TarPaths == {upload_filepath(id, f) : id \in Ids, f \in Filenames}

(***************************************************************************)
(* Python values.                                                          *)
(***************************************************************************)
\* dict.get(key, default)
Get(d, k, default) == IF k \in DOMAIN d THEN d[k] ELSE default

\* {}
EmptyDict == [k \in {} |-> k]

\* what entry.get('hash') answers for an entry without the key
NoneHash == "None"

\* a hash is a hex digest, or "" when the file could not be hashed
Hashes == {AllHashes[i] : i \in 1..NumHashes} \cup {""}

\* d with key k set to v (d[k] = v)
DictSet(d, k, v) == [x \in DOMAIN d \cup {k} |-> IF x = k THEN v ELSE d[x]]

\* d without key k (del d[k])
DictDel(d, k) == [x \in DOMAIN d \ {k} |-> d[x]]

(***************************************************************************)
(* Manifests (the manifest.json of a project archive).  A file entry       *)
(* carries its path and, when it was recorded, its hash.                   *)
(***************************************************************************)
Shapes == [FilePaths -> [kind : {"absent", "dir", "file"},
                         hash : Hashes \cup {NoneHash}]]

MkManifest(s) ==
    [metadata |-> [version |-> "2.0"],
     files |-> [p \in {q \in FilePaths : s[q].kind = "file"} |->
                   IF s[p].hash = NoneHash THEN [path |-> p]
                   ELSE [path |-> p, hash |-> s[p].hash]],
     directories |-> [p \in {q \in FilePaths : s[q].kind = "dir"} |-> [path |-> p]],
     errors |-> <<>>]

Manifests == {MkManifest(s) : s \in Shapes}

(***************************************************************************)
(* Python strings and pathlib.  TLC cannot look into a string, so each     *)
(* path and pattern of the model is listed with its characters; the        *)
(* operations below compute on the characters as str and PurePath do.      *)
(***************************************************************************)
StrChars ==
       ("/x/a.txt" :> <<"/", "x", "/", "a", ".", "t", "x", "t">>)
    @@ ("/x/b.txt" :> <<"/", "x", "/", "b", ".", "t", "x", "t">>)
    @@ ("/etc/app.conf" :> <<"/", "e", "t", "c", "/", "a", "p", "p", ".", "c", "o", "n", "f">>)
    @@ ("/x/noext" :> <<"/", "x", "/", "n", "o", "e", "x", "t">>)
    @@ ("/x" :> <<"/", "x">>)
    @@ ("/etc" :> <<"/", "e", "t", "c">>)
    @@ ("/y" :> <<"/", "y">>)
    @@ ("/x/sub" :> <<"/", "x", "/", "s", "u", "b">>)
    @@ ("/x/sub/c.txt" :> <<"/", "x", "/", "s", "u", "b", "/", "c", ".", "t", "x", "t">>)
    @@ ("/x/App.CONF" :> <<"/", "x", "/", "A", "p", "p", ".", "C", "O", "N", "F">>)
    @@ ("/x/.profile" :> <<"/", "x", "/", ".", "p", "r", "o", "f", "i", "l", "e">>)
    @@ ("/x/sub/d.log" :> <<"/", "x", "/", "s", "u", "b", "/", "d", ".", "l", "o", "g">>)
    @@ ("/etc/passwd" :> <<"/", "e", "t", "c", "/", "p", "a", "s", "s", "w", "d">>)
    @@ ("*/tmp/*" :> <<"*", "/", "t", "m", "p", "/", "*">>)
    @@ ("*/temp/*" :> <<"*", "/", "t", "e", "m", "p", "/", "*">>)
    @@ ("*/.git/*" :> <<"*", "/", ".", "g", "i", "t", "/", "*">>)
    @@ ("*/__pycache__/*" :> <<"*", "/", "_", "_", "p", "y", "c", "a", "c", "h", "e", "_", "_", "/", "*">>)
    @@ ("*.pyc" :> <<"*", ".", "p", "y", "c">>)
    @@ ("*/cache/*" :> <<"*", "/", "c", "a", "c", "h", "e", "/", "*">>)
    @@ ("*/logs/*.log.*" :> <<"*", "/", "l", "o", "g", "s", "/", "*", ".", "l", "o", "g", ".", "*">>)
    @@ ("*/passwd" :> <<"*", "/", "p", "a", "s", "s", "w", "d">>)
    @@ ("*/shadow" :> <<"*", "/", "s", "h", "a", "d", "o", "w">>)
    @@ ("*/sudoers" :> <<"*", "/", "s", "u", "d", "o", "e", "r", "s">>)
    @@ ("*/.ssh/*" :> <<"*", "/", ".", "s", "s", "h", "/", "*">>)
    @@ ("*/ssl/private/*" :> <<"*", "/", "s", "s", "l", "/", "p", "r", "i", "v", "a", "t", "e", "/", "*">>)
    @@ ("*/keys/*" :> <<"*", "/", "k", "e", "y", "s", "/", "*">>)
    @@ ("*/secrets/*" :> <<"*", "/", "s", "e", "c", "r", "e", "t", "s", "/", "*">>)
    @@ ("*" :> <<"*">>)
    @@ ("*.txt" :> <<"*", ".", "t", "x", "t">>)
    @@ ("*.conf" :> <<"*", ".", "c", "o", "n", "f">>)
    @@ ("*.log" :> <<"*", ".", "l", "o", "g">>)
    @@ ("sub" :> <<"s", "u", "b">>)
    @@ ("/x/*" :> <<"/", "x", "/", "*">>)
    @@ ("*/sub/*" :> <<"*", "/", "s", "u", "b", "/", "*">>)
    @@ ("App.CONF" :> <<"A", "p", "p", ".", "C", "O", "N", "F">>)
    @@ ("app.conf" :> <<"a", "p", "p", ".", "c", "o", "n", "f">>)
    @@ (".txt" :> <<".", "t", "x", "t">>)
    @@ (".conf" :> <<".", "c", "o", "n", "f">>)
    @@ (".CONF" :> <<".", "C", "O", "N", "F">>)
    @@ (".log" :> <<".", "l", "o", "g">>)
    @@ ("*.CONF" :> <<"*", ".", "C", "O", "N", "F">>)
    @@ ("conf" :> <<"c", "o", "n", "f">>)
    @@ ("config" :> <<"c", "o", "n", "f", "i", "g">>)
    @@ ("cfg" :> <<"c", "f", "g">>)
    @@ ("ini" :> <<"i", "n", "i">>)
    @@ ("yaml" :> <<"y", "a", "m", "l">>)
    @@ ("yml" :> <<"y", "m", "l">>)
    @@ ("json" :> <<"j", "s", "o", "n">>)

\* the characters of a string of the model
Chars(str) == StrChars[str]

\* "".join(chars)
RECURSIVE Join(_)
Join(chars) == IF chars = <<>> THEN "" ELSE Head(chars) \o Join(Tail(chars))

\* str.lower(), by character
LowerOf ==
       ("A" :> "a")
    @@ ("B" :> "b")
    @@ ("C" :> "c")
    @@ ("D" :> "d")
    @@ ("E" :> "e")
    @@ ("F" :> "f")
    @@ ("G" :> "g")
    @@ ("H" :> "h")
    @@ ("I" :> "i")
    @@ ("J" :> "j")
    @@ ("K" :> "k")
    @@ ("L" :> "l")
    @@ ("M" :> "m")
    @@ ("N" :> "n")
    @@ ("O" :> "o")
    @@ ("P" :> "p")
    @@ ("Q" :> "q")
    @@ ("R" :> "r")
    @@ ("S" :> "s")
    @@ ("T" :> "t")
    @@ ("U" :> "u")
    @@ ("V" :> "v")
    @@ ("W" :> "w")
    @@ ("X" :> "x")
    @@ ("Y" :> "y")
    @@ ("Z" :> "z")

lower(chars) ==
    [i \in 1..Len(chars) |->
        IF chars[i] \in DOMAIN LowerOf THEN LowerOf[chars[i]] ELSE chars[i]]

\* "sub in text" on characters
contains(sub, text) ==
    \E i \in 0..(Len(text) - Len(sub)) : SubSeq(text, i + 1, i + Len(sub)) = sub

\* the index of the last "/" of an absolute path
last_sep(chars) == CHOOSE i \in 1..Len(chars) :
                       chars[i] = "/" /\ \A j \in (i + 1)..Len(chars) : chars[j] # "/"

\* PurePath.name: what follows the last "/"
path_name(chars) == SubSeq(chars, last_sep(chars) + 1, Len(chars))

\* PurePath.parent of an absolute path: what precedes the last "/", or "/"
path_parent(chars) ==
    IF last_sep(chars) = 1 THEN <<"/">> ELSE SubSeq(chars, 1, last_sep(chars) - 1)

\* PurePath.suffix: the name from its last ".", unless that "." is the first
\* or the last character of the name
path_suffix(chars) ==
    LET name == path_name(chars)
        dots == {i \in 1..Len(name) : name[i] = "."}
    IN IF dots = {} THEN <<>>
       ELSE LET i == CHOOSE d \in dots : \A e \in dots : e <= d
            IN IF 1 < i /\ i < Len(name) THEN SubSeq(name, i, Len(name)) ELSE <<>>

\* PurePath.parts without the root: the components between the "/"
RECURSIVE path_parts(_)
path_parts(chars) ==
    IF chars = <<>> THEN <<>>
    ELSE LET seps == {i \in 1..Len(chars) : chars[i] = "/"}
         IN IF seps = {} THEN <<chars>>
            ELSE LET first == CHOOSE i \in seps : \A j \in seps : i <= j
                     rest == path_parts(SubSeq(chars, first + 1, Len(chars)))
                 IN IF first = 1 THEN rest
                    ELSE <<SubSeq(chars, 1, first - 1)>> \o rest

\* fnmatch.fnmatchcase of one component, for patterns of literals, "*" and "?"
RECURSIVE fnmatch(_, _)
fnmatch(name, pat) ==
    IF pat = <<>> THEN name = <<>>
    ELSE IF Head(pat) = "*"
    THEN fnmatch(name, Tail(pat)) \/ (name # <<>> /\ fnmatch(Tail(name), pat))
    ELSE /\ name # <<>>
         /\ Head(pat) = "?" \/ Head(pat) = Head(name)
         /\ fnmatch(Tail(name), Tail(pat))

\* PurePath.match(pattern) of an absolute path: an absolute pattern matches
\* the whole path, a relative one the last components
path_match(path, pattern) ==
    LET parts == path_parts(Chars(path))
        pat_parts == path_parts(Chars(pattern))
        n == Len(parts)
        k == Len(pat_parts)
    IN /\ IF Head(Chars(pattern)) = "/" THEN k = n ELSE k <= n
       /\ \A i \in 1..k : fnmatch(parts[n - k + i], pat_parts[i])

(***************************************************************************)
(* Files of the upload folder.  A tar archive is its members by name:      *)
(* manifest.json holds the manifest, "archived_files<path>" a file's bytes *)
(* or a directory.                                                         *)
(***************************************************************************)
NoFile == [kind |-> "missing"]
EmptyFile == [kind |-> "empty"]
GarbageFile == [kind |-> "garbage"]
Tar(members) == [kind |-> "tar", members |-> members]
JsonMember(manifest) == [type |-> "json", json |-> manifest]
FileMember(data) == [type |-> "file", data |-> data]
DirMember == [type |-> "dir"]

\* os.path.exists
exists(filesys, path) == path \in DOMAIN filesys /\ filesys[path].kind # "missing"

\* the archive the recorder writes for a manifest and no archived file
ManifestOnlyTar(manifest) == Tar([n \in {"manifest.json"} |-> JsonMember(manifest)])

(***************************************************************************)
(* ProjectAnalyzer._save_projects_cache: the cache file lists every        *)
(* project of the map with its tar path and load time.                     *)
(***************************************************************************)
NoCacheFile == [exists |-> FALSE]

cache_data(projs) ==
    [project_id \in DOMAIN projs |->
        [tar_path |-> Get(projs[project_id], "tar_path", "None"),
         loaded_at |-> Get(projs[project_id], "loaded_at", 0)]]

_save_projects_cache(projs) == [exists |-> TRUE, data |-> cache_data(projs)]

(***************************************************************************)
(* ProjectAnalyzer.load_project: the answer of a load on the store         *)
(* (projs, cch) at time clock: the exception raised ("" for none), the     *)
(* summary returned, and the store afterwards.                             *)
(***************************************************************************)
Raise(exc, projs, cch) == [exc |-> exc, projects |-> projs, cache |-> cch]

load_summary(project_id, manifest) ==
    [id |-> project_id,
     metadata |-> Get(manifest, "metadata", EmptyDict),
     file_count |-> Cardinality(DOMAIN Get(manifest, "files", EmptyDict)),
     directory_count |-> Cardinality(DOMAIN Get(manifest, "directories", EmptyDict)),
     error_count |-> Len(Get(manifest, "errors", <<>>))]

project_info(project_id, manifest, tar_path, clock) ==
    [id |-> project_id,
     manifest |-> manifest,
     tar_path |-> tar_path,
     loaded_at |-> clock]

\* load_project keeping the entry of an id that is already in the map
\* (self.projects.setdefault(project_id, project_info))
load_project_setdefault(projs, cch, filesys, clock, project_id, tar_path, from_cache) ==
    IF ~exists(filesys, tar_path) THEN Raise("FileNotFoundError", projs, cch)
    ELSE IF filesys[tar_path].kind = "empty" THEN Raise("ValueError", projs, cch)
    ELSE IF filesys[tar_path].kind # "tar" THEN Raise("ValueError", projs, cch)
    ELSE IF "manifest.json" \notin DOMAIN filesys[tar_path].members
         THEN Raise("ValueError", projs, cch)
    ELSE LET manifest == filesys[tar_path].members["manifest.json"].json
             stored == IF project_id \in DOMAIN projs THEN projs
                       ELSE DictSet(projs, project_id,
                               project_info(project_id, manifest, tar_path, clock))
         IN [exc |-> "",
             value |-> load_summary(project_id, manifest),
             projects |-> stored,
             cache |-> IF from_cache THEN cch ELSE _save_projects_cache(stored)]

\* load_project dropping the id's entry before it validates the archive
\* (self.projects.pop(project_id, None) first)
load_project_pop_first(projs, cch, filesys, clock, project_id, tar_path, from_cache) ==
    LET popped == DictDel(projs, project_id)
    IN IF ~exists(filesys, tar_path) THEN Raise("FileNotFoundError", popped, cch)
       ELSE IF filesys[tar_path].kind # "tar" THEN Raise("ValueError", popped, cch)
       ELSE IF "manifest.json" \notin DOMAIN filesys[tar_path].members
            THEN Raise("ValueError", popped, cch)
       ELSE LET manifest == filesys[tar_path].members["manifest.json"].json
                stored == DictSet(popped, project_id,
                              project_info(project_id, manifest, tar_path, clock))
            IN [exc |-> "",
                value |-> load_summary(project_id, manifest),
                projects |-> stored,
                cache |-> IF from_cache THEN cch ELSE _save_projects_cache(stored)]

load_project(projs, cch, filesys, clock, project_id, tar_path, from_cache) ==
    IF ~exists(filesys, tar_path) THEN Raise("FileNotFoundError", projs, cch)
    ELSE IF filesys[tar_path].kind = "empty" THEN Raise("ValueError", projs, cch)
    ELSE IF filesys[tar_path].kind # "tar" THEN Raise("ValueError", projs, cch)
    ELSE IF "manifest.json" \notin DOMAIN filesys[tar_path].members
         THEN Raise("ValueError", projs, cch)
    ELSE LET manifest == filesys[tar_path].members["manifest.json"].json
             stored == DictSet(projs, project_id,
                               project_info(project_id, manifest, tar_path, clock))
         IN [exc |-> "",
             value |-> load_summary(project_id, manifest),
             projects |-> stored,
             cache |-> IF from_cache THEN cch ELSE _save_projects_cache(stored)]


(***************************************************************************)
(* ProjectAnalyzer.get_project_summary.                                    *)
(***************************************************************************)
get_project_summary(projs, project_id) ==
    IF project_id \notin DOMAIN projs THEN [exc |-> "ValueError"]
    ELSE LET project == projs[project_id]
             manifest == project.manifest
         IN [exc |-> "",
             value |->
               [id |-> project_id,
                metadata |-> Get(manifest, "metadata", EmptyDict),
                statistics |->
                  [total_files |-> Cardinality(DOMAIN Get(manifest, "files", EmptyDict)),
                   total_directories |->
                       Cardinality(DOMAIN Get(manifest, "directories", EmptyDict)),
                   archived_files |->
                       Cardinality({p \in DOMAIN Get(manifest, "files", EmptyDict) :
                           Get(Get(manifest, "files", EmptyDict)[p], "archived", FALSE)}),
                   errors |-> Len(Get(manifest, "errors", <<>>))],
                loaded_at |-> project.loaded_at]]

(***************************************************************************)
(* ProjectAnalyzer.compare_projects.  The loop over all_paths appends each *)
(* path to one of the four lists; a set is iterated in no particular       *)
(* order, here in the order CHOOSE picks.                                  *)
(***************************************************************************)
NoChanges ==
    [new_files |-> <<>>, deleted_files |-> <<>>,
     modified_files |-> <<>>, unchanged_files |-> <<>>]

\* classify_path with the deleted branch lost: a path only in files1 is dropped
classify_path_drop_deleted(changes, files1, files2, path) ==
    IF path \in DOMAIN files1 /\ path \in DOMAIN files2
    THEN IF Get(files1[path], "hash", NoneHash) # Get(files2[path], "hash", NoneHash)
         THEN [changes EXCEPT !.modified_files =
                  Append(@, [path |-> path, before |-> files1[path],
                             after |-> files2[path]])]
         ELSE [changes EXCEPT !.unchanged_files =
                  Append(@, [path |-> path, file |-> files1[path]])]
    ELSE IF path \in DOMAIN files1
    THEN changes
    ELSE [changes EXCEPT !.new_files =
             Append(@, [path |-> path, file |-> files2[path]])]

\* classify_path with before and after taken from the same side
classify_path_same_side(changes, files1, files2, path) ==
    IF path \in DOMAIN files1 /\ path \in DOMAIN files2
    THEN IF Get(files1[path], "hash", NoneHash) # Get(files2[path], "hash", NoneHash)
         THEN [changes EXCEPT !.modified_files =
                  Append(@, [path |-> path, before |-> files1[path],
                             after |-> files1[path]])]
         ELSE [changes EXCEPT !.unchanged_files =
                  Append(@, [path |-> path, file |-> files1[path]])]
    ELSE IF path \in DOMAIN files1
    THEN [changes EXCEPT !.deleted_files =
             Append(@, [path |-> path, file |-> files1[path]])]
    ELSE [changes EXCEPT !.new_files =
             Append(@, [path |-> path, file |-> files2[path]])]

\* classify_path taking an entry without a hash for changed
classify_path_missing_hash(changes, files1, files2, path) ==
    IF path \in DOMAIN files1 /\ path \in DOMAIN files2
    THEN IF \/ "hash" \notin DOMAIN files1[path]
            \/ "hash" \notin DOMAIN files2[path]
            \/ files1[path].hash # files2[path].hash
         THEN [changes EXCEPT !.modified_files =
                  Append(@, [path |-> path, before |-> files1[path],
                             after |-> files2[path]])]
         ELSE [changes EXCEPT !.unchanged_files =
                  Append(@, [path |-> path, file |-> files1[path]])]
    ELSE IF path \in DOMAIN files1
    THEN [changes EXCEPT !.deleted_files =
             Append(@, [path |-> path, file |-> files1[path]])]
    ELSE [changes EXCEPT !.new_files =
             Append(@, [path |-> path, file |-> files2[path]])]

\* one turn of the loop "for path in all_paths"
classify_path(changes, files1, files2, path) ==
    IF path \in DOMAIN files1 /\ path \in DOMAIN files2
    THEN IF Get(files1[path], "hash", NoneHash) # Get(files2[path], "hash", NoneHash)
         THEN [changes EXCEPT !.modified_files =
                  Append(@, [path |-> path, before |-> files1[path],
                             after |-> files2[path]])]
         ELSE [changes EXCEPT !.unchanged_files =
                  Append(@, [path |-> path, file |-> files1[path]])]
    ELSE IF path \in DOMAIN files1
    THEN [changes EXCEPT !.deleted_files =
             Append(@, [path |-> path, file |-> files1[path]])]
    ELSE [changes EXCEPT !.new_files =
             Append(@, [path |-> path, file |-> files2[path]])]

RECURSIVE classify_all(_, _, _, _)
classify_all(changes, files1, files2, all_paths) ==
    IF all_paths = {} THEN changes
    ELSE LET path == CHOOSE p \in all_paths : TRUE
         IN classify_all(classify_path(changes, files1, files2, path),
                         files1, files2, all_paths \ {path})

compare_statistics(files1, files2, changes) ==
    [total_files_before |-> Cardinality(DOMAIN files1),
     total_files_after |-> Cardinality(DOMAIN files2),
     new_files |-> Len(changes.new_files),
     deleted_files |-> Len(changes.deleted_files),
     modified_files |-> Len(changes.modified_files),
     unchanged_files |-> Len(changes.unchanged_files)]

compare_projects(projs, clock, project1_id, project2_id) ==
    IF project1_id \notin DOMAIN projs \/ project2_id \notin DOMAIN projs
    THEN [exc |-> "ValueError"]
    ELSE LET files1 == Get(projs[project1_id].manifest, "files", EmptyDict)
             files2 == Get(projs[project2_id].manifest, "files", EmptyDict)
             all_paths == DOMAIN files1 \cup DOMAIN files2
             changes == classify_all(NoChanges, files1, files2, all_paths)
         IN [exc |-> "",
             value |-> [project1 |-> project1_id,
                        project2 |-> project2_id,
                        comparison_date |-> clock,
                        statistics |-> compare_statistics(files1, files2, changes),
                        changes |-> changes]]

(***************************************************************************)
(* The export_comparison route: the comparison as JSON or as CSV rows.     *)
(***************************************************************************)
\* the CSV row of one changed file; file_info[...]['metadata'] raises KeyError
\* for an entry without metadata
csv_row(label, path, before, after) ==
    IF \E e \in {before, after} : e # EmptyDict /\ "metadata" \notin DOMAIN e
    THEN [exc |-> "KeyError"]
    ELSE [exc |-> "",
          value |-> <<label, path,
                      IF before = EmptyDict THEN "" ELSE Get(before.metadata, "size", ""),
                      IF after = EmptyDict THEN "" ELSE Get(after.metadata, "size", ""),
                      IF before = EmptyDict THEN "" ELSE Get(before, "hash", ""),
                      IF after = EmptyDict THEN "" ELSE Get(after, "hash", "")>>]

\* the rows of the modified, the new and the deleted files
csv_rows(changes) ==
    [i \in 1..Len(changes.new_files) |->
        csv_row("Added", changes.new_files[i].path, EmptyDict, changes.new_files[i].file)]
    \o [i \in 1..Len(changes.deleted_files) |->
        csv_row("Deleted", changes.deleted_files[i].path,
                changes.deleted_files[i].file, EmptyDict)]
    \o [i \in 1..Len(changes.modified_files) |->
        csv_row("Modified", changes.modified_files[i].path,
                changes.modified_files[i].before, changes.modified_files[i].after)]

\* export_comparison: 400 for a format other than csv and json; otherwise the
\* comparison, and 500 for every exception
export_comparison(projs, clock, project1_id, project2_id, format) ==
    IF format \notin {"csv", "json"}
    THEN [status |-> 400, body |-> [error |-> "Invalid format. Use csv or json"]]
    ELSE LET r == compare_projects(projs, clock, project1_id, project2_id)
         IN IF r.exc # "" THEN [status |-> 500, body |-> [error |-> r.exc]]
            ELSE IF format = "json"
            THEN [status |-> 200, body |-> r.value]
            ELSE LET rows == csv_rows(r.value.changes)
                 IN IF \E i \in 1..Len(rows) : rows[i].exc # ""
                    THEN [status |-> 500, body |-> [error |-> "KeyError"]]
                    ELSE [status |-> 200,
                          body |-> [rows |-> [i \in 1..Len(rows) |-> rows[i].value]]]

(***************************************************************************)
(* ProjectAnalyzer.get_file_diff and _extract_file_content.  A file's      *)
(* content is its bytes; the text decoded from it is its code points.      *)
(***************************************************************************)
NoneContent == [none |-> TRUE]
SomeContent(text) == [none |-> FALSE, text |-> text]

\* bytes.decode('utf-8'), and 'latin1' when that fails.  Of the bytes of the
\* model (ASCII, and 255, which no UTF-8 text holds) an ASCII byte decodes to
\* its code point under both, and latin1 decodes every byte to its code point.
decode(content) ==
    IF \A i \in 1..Len(content) : content[i] < 128
    THEN content
    ELSE [i \in 1..Len(content) |-> content[i]]

\* str.splitlines, for the line break "\n" (10)
RECURSIVE splitlines(_)
splitlines(text) ==
    IF text = <<>> THEN <<>>
    ELSE LET breaks == {i \in 1..Len(text) : text[i] = 10}
         IN IF breaks = {} THEN <<text>>
            ELSE LET first == CHOOSE i \in breaks : \A j \in breaks : i <= j
                 IN <<SubSeq(text, 1, first - 1)>>
                    \o splitlines(SubSeq(text, first + 1, Len(text)))

\* the member name under which a file's content is looked up
archive_path(file_path) == "archived_files" \o file_path

_extract_file_content(filesys, project, file_path) ==
    IF ~exists(filesys, project.tar_path) \/ filesys[project.tar_path].kind # "tar"
    THEN NoneContent                     \* tarfile.open raises: except Exception
    ELSE LET members == filesys[project.tar_path].members
         IN IF archive_path(file_path) \notin DOMAIN members
            THEN NoneContent             \* tar.getmember raises KeyError
            ELSE IF members[archive_path(file_path)].type # "file"
            THEN NoneContent             \* tar.extractfile answers None
            ELSE SomeContent(decode(members[archive_path(file_path)].data))

\* difflib.HtmlDiff().make_file: the page is a function of what it is given
_generate_diff_html(lines1, lines2, filename) ==
    [fromlines |-> lines1, tolines |-> lines2,
     fromdesc |-> "Before: " \o filename, todesc |-> "After: " \o filename,
     context |-> TRUE, numlines |-> 3]

\* len(content) if content else 0
content_size(content) == IF content.none THEN 0 ELSE Len(content.text)

\* file_diff_of testing "not content" where the code tests "content is None":
\* an empty file counts as absent
file_diff_of_falsy(filesys, project1, project2, file_path) ==
    LET content1 == _extract_file_content(filesys, project1, file_path)
        content2 == _extract_file_content(filesys, project2, file_path)
        no1 == content1.none \/ content1.text = <<>>
        no2 == content2.none \/ content2.text = <<>>
    IN IF no1 /\ no2
       THEN [error |-> "File not found in either project"]
       ELSE [file_path |-> file_path,
             diff_type |-> IF no1 THEN "added"
                           ELSE IF no2 THEN "deleted"
                           ELSE "modified",
             diff_html |->
                 IF no1
                 THEN _generate_diff_html(<<>>, splitlines(content2.text), file_path)
                 ELSE IF no2
                 THEN _generate_diff_html(splitlines(content1.text), <<>>, file_path)
                 ELSE _generate_diff_html(splitlines(content1.text),
                                          splitlines(content2.text), file_path),
             content1_size |-> content_size(content1),
             content2_size |-> content_size(content2)]

\* get_file_diff after its two lookups: project1 and project2 are the
\* project_info records it read from the map
file_diff_of(filesys, project1, project2, file_path) ==
    LET content1 == _extract_file_content(filesys, project1, file_path)
        content2 == _extract_file_content(filesys, project2, file_path)
    IN IF content1.none /\ content2.none
       THEN [error |-> "File not found in either project"]
       ELSE [file_path |-> file_path,
             diff_type |-> IF content1.none THEN "added"
                           ELSE IF content2.none THEN "deleted"
                           ELSE "modified",
             diff_html |->
                 IF content1.none
                 THEN _generate_diff_html(<<>>, splitlines(content2.text), file_path)
                 ELSE IF content2.none
                 THEN _generate_diff_html(splitlines(content1.text), <<>>, file_path)
                 ELSE _generate_diff_html(splitlines(content1.text),
                                          splitlines(content2.text), file_path),
             content1_size |-> content_size(content1),
             content2_size |-> content_size(content2)]

\* get_file_diff raising not-found only when both ids are unknown ("and" for
\* "or"): the lookup of the unknown one then raises KeyError
get_file_diff_and(projs, filesys, project1_id, project2_id, file_path) ==
    IF project1_id \notin DOMAIN projs /\ project2_id \notin DOMAIN projs
    THEN [exc |-> "ValueError"]
    ELSE IF project1_id \notin DOMAIN projs \/ project2_id \notin DOMAIN projs
    THEN [exc |-> "KeyError"]
    ELSE [exc |-> "",
          value |-> file_diff_of(filesys, projs[project1_id], projs[project2_id],
                                 file_path)]

get_file_diff(projs, filesys, project1_id, project2_id, file_path) ==
    IF project1_id \notin DOMAIN projs \/ project2_id \notin DOMAIN projs
    THEN [exc |-> "ValueError"]
    ELSE [exc |-> "",
          value |-> file_diff_of(filesys, projs[project1_id], projs[project2_id],
                                 file_path)]

(***************************************************************************)
(* ProjectAnalyzer.generate_mode2_config: the classification of the paths  *)
(* and the changes_summary of the configuration it returns.                *)
(***************************************************************************)
changed_files(files1, files2) ==
    LET all_paths == DOMAIN files1 \cup DOMAIN files2
    IN [new_files |-> {path \in all_paths : path \notin DOMAIN files1},
        deleted_files |-> {path \in all_paths :
                              path \in DOMAIN files1 /\ path \notin DOMAIN files2},
        modified_files |-> {path \in all_paths :
                              /\ path \in DOMAIN files1 /\ path \in DOMAIN files2
                              /\ Get(files1[path], "hash", NoneHash)
                                     # Get(files2[path], "hash", NoneHash)}]

\* the file paths of the manifests of SpecConfig
AllConfigPaths == <<"/x/a.txt", "/x/App.CONF", "/x/.profile", "/etc/app.conf",
                    "/x/sub/d.log", "/x/noext", "/etc/passwd">>

\* the markers of a configuration file's name
config_markers ==
    {Chars(m) : m \in {"conf", "config", "cfg", "ini", "yaml", "yml", "json"}}

\* Path(filepath) of the file paths of the model: its parent, suffix and name
\* as strings, and whether the lower-cased name holds a marker
Path ==
    [filepath \in {AllFilePaths[i] : i \in 1..Len(AllFilePaths)}
                  \cup {AllConfigPaths[i] : i \in 1..Len(AllConfigPaths)} |->
        [parent |-> Join(path_parent(Chars(filepath))),
         suffix |-> Join(path_suffix(Chars(filepath))),
         name |-> Join(path_name(Chars(filepath))),
         marked |-> \E pattern \in config_markers :
                        contains(pattern, lower(path_name(Chars(filepath))))]]

\* str(Path(filepath).parent) of the changed files
directories(all_changed_files) ==
    {Path[filepath].parent : filepath \in all_changed_files}

\* f"*{suffix}" of the changed files that have a suffix
file_extensions(all_changed_files) ==
    {"*" \o Path[filepath].suffix :
        filepath \in {f \in all_changed_files : Path[f].suffix # ""}}

\* specific_files collecting the names that hold a marker as they are written
specific_files_cased(all_changed_files) ==
    {Path[filepath].name :
        filepath \in {f \in all_changed_files :
                         \E pattern \in config_markers :
                             contains(pattern, path_name(Chars(f)))}}

\* Path(filepath).name of the changed files whose lower-cased name holds a marker
specific_files(all_changed_files) ==
    {Path[filepath].name : filepath \in {f \in all_changed_files : Path[f].marked}}

\* the characters of the model in the order of their code points (ord)
code_points ==
    <<"*", ".", "/",
      "A", "B", "C", "D", "E", "F", "G", "H", "I", "J", "K", "L", "M",
      "N", "O", "P", "Q", "R", "S", "T", "U", "V", "W", "X", "Y", "Z",
      "a", "b", "c", "d", "e", "f", "g", "h", "i", "j", "k", "l", "m",
      "n", "o", "p", "q", "r", "s", "t", "u", "v", "w", "x", "y", "z">>

\* the place of each character in that order
ord == [c \in {code_points[i] : i \in 1..Len(code_points)} |->
           CHOOSE i \in 1..Len(code_points) : code_points[i] = c]

\* a < b on str: the first difference decides, a proper prefix is smaller
str_lt(a, b) ==
    \E i \in 1..(Len(b)) :
        /\ \A j \in 1..(i - 1) : j <= Len(a) /\ a[j] = b[j]
        /\ i - 1 <= Len(a)
        /\ i > Len(a) \/ ord[a[i]] < ord[b[i]]

\* the strings the configurations of the model are made of, each with the
\* number of those that are smaller
str_rank ==
    LET seqs == {path_parent(Chars(f)) : f \in DOMAIN Path}
                    \cup {<<"*">> \o path_suffix(Chars(f)) : f \in DOMAIN Path}
                    \cup {path_name(Chars(f)) : f \in DOMAIN Path}
    IN [s \in {Join(a) : a \in seqs} |->
           Cardinality({b \in seqs :
                           str_lt(b, CHOOSE a \in seqs : Join(a) = s)})]

\* list(a_set) cut to its first element
list_first(a_set, seed) ==
    IF a_set = {} THEN <<>>
    ELSE <<CHOOSE y \in a_set :
               Cardinality({z \in a_set : str_rank[z] < str_rank[y]})
                   = seed % Cardinality(a_set)>>

\* the elements of a_set in the order numbered seed: seed counts the orders
\* as the digits of a number whose places have the sizes of the rest
RECURSIVE list_by(_, _, _)
list_by(rank, a_set, seed) ==
    IF a_set = {} THEN <<>>
    ELSE LET n == Cardinality(a_set)
             x == CHOOSE y \in a_set :
                      Cardinality({z \in a_set : rank[z] < rank[y]}) = seed % n
         IN <<x>> \o list_by(rank, a_set \ {x}, seed \div n)

\* list(a_set): the elements in the iteration order of the set, which depends
\* on the string hashes of the process; seed numbers the orders
list_of(a_set, seed) == list_by(str_rank, a_set, seed)

\* sorted(a_list): each element goes after the smaller ones and after the
\* equal ones that come before it
sorted(a_list) ==
    LET place(j) ==
            Cardinality({k \in 1..Len(a_list) :
                            str_rank[a_list[k]] < str_rank[a_list[j]]})
            + Cardinality({k \in 1..(j - 1) : a_list[k] = a_list[j]})
    IN [i \in 1..Len(a_list) |->
           a_list[CHOOSE j \in 1..Len(a_list) : place(j) = i - 1]]

\* the largest seed of an iteration order that a call draws
MaxSeed == 1

mode2_config_of(project1, project2, project1_id, project2_id, clock, seed) ==
    LET files1 == Get(project1.manifest, "files", EmptyDict)
        files2 == Get(project2.manifest, "files", EmptyDict)
        ch == changed_files(files1, files2)
        all_changed_files == ch.new_files \cup ch.deleted_files \cup ch.modified_files
        patterns == file_extensions(all_changed_files)
                        \cup specific_files(all_changed_files)
        include == IF patterns # {}
                   THEN sorted(list_of(patterns, seed))
                   ELSE <<"*">>
    IN [logging |-> [level |-> "INFO"],
        paths |->
          [scan |-> sorted(list_of(directories(all_changed_files), seed)),
           include |-> include,
           exclude |-> <<"*/tmp/*", "*/temp/*", "*/.git/*", "*/__pycache__/*",
                         "*.pyc", "*/cache/*", "*/logs/*.log.*">>],
        archive |->
          [max_file_size |-> 104857600,
           patterns |-> include,
           exclude_from_archive |-> <<"*/passwd", "*/shadow", "*/sudoers",
                                      "*/.ssh/*", "*/ssl/private/*", "*/keys/*",
                                      "*/secrets/*">>],
        performance |-> [worker_threads |-> 4, hash_chunk_size |-> 65536,
                         max_files |-> 0],
        mode2_metadata |->
          [generated_from |-> [before_project |-> project1_id,
                               after_project |-> project2_id,
                               generated_at |-> clock],
           changes_summary |-> [new_files |-> Cardinality(ch.new_files),
                                deleted_files |-> Cardinality(ch.deleted_files),
                                modified_files |-> Cardinality(ch.modified_files),
                                total_changes |-> Cardinality(all_changed_files)]]]

generate_mode2_config(projs, clock, seed, project1_id, project2_id) ==
    IF project1_id \notin DOMAIN projs \/ project2_id \notin DOMAIN projs
    THEN [exc |-> "ValueError"]
    ELSE [exc |-> "",
          value |-> mode2_config_of(projs[project1_id], projs[project2_id],
                                    project1_id, project2_id, clock, seed)]

(***************************************************************************)
(* ProjectAnalyzer.cleanup_project, delete_project, cleanup_stale_projects *)
(* and _load_projects_cache: each answers the store afterwards.            *)
(***************************************************************************)
\* cleanup_project removes the project from the map and leaves the cache file
cleanup_project(projs, cch, project_id) ==
    IF project_id \in DOMAIN projs
    THEN [projects |-> DictDel(projs, project_id), cache |-> cch]
    ELSE [projects |-> projs, cache |-> cch]

delete_project(projs, cch, project_id) ==
    IF project_id \in DOMAIN projs
    THEN LET removed == DictDel(projs, project_id)
         IN [projects |-> removed, cache |-> _save_projects_cache(removed)]
    ELSE [projects |-> projs, cache |-> cch]

\* stale_projects with the test inverted: the projects whose archive exists
stale_projects_inverted(projs, filesys) ==
    {project_id \in DOMAIN projs :
        /\ Get(projs[project_id], "tar_path", "") # ""
        /\ exists(filesys, projs[project_id].tar_path)}

\* the first loop of cleanup_stale_projects
stale_projects(projs, filesys) ==
    {project_id \in DOMAIN projs :
        /\ Get(projs[project_id], "tar_path", "") # ""
        /\ ~exists(filesys, projs[project_id].tar_path)}

\* its second loop: delete_project for every stale project
RECURSIVE delete_all(_, _, _)
delete_all(projs, cch, stale) ==
    IF stale = {} THEN [projects |-> projs, cache |-> cch]
    ELSE LET project_id == CHOOSE id \in stale : TRUE
             r == delete_project(projs, cch, project_id)
         IN delete_all(r.projects, r.cache, stale \ {project_id})

cleanup_stale_projects(projs, cch, filesys) ==
    delete_all(projs, cch, stale_projects(projs, filesys))

\* restore_all without the inner try: a load that raises reaches the outer
\* except, which empties the map and ends the loop
RECURSIVE restore_all_abort(_, _, _, _, _)
restore_all_abort(projs, cch, filesys, clock, entries) ==
    IF entries = {} THEN projs
    ELSE LET project_id == CHOOSE id \in entries : TRUE
             tar_path == Get(cch.data[project_id], "tar_path", "")
             r == load_project(projs, cch, filesys, clock, project_id, tar_path, TRUE)
         IN IF tar_path # "" /\ exists(filesys, tar_path)
            THEN IF r.exc # "" THEN EmptyDict
                 ELSE restore_all_abort(r.projects, cch, filesys, clock,
                                        entries \ {project_id})
            ELSE restore_all_abort(projs, cch, filesys, clock, entries \ {project_id})

\* the loop of _load_projects_cache over the entries not yet restored
RECURSIVE restore_all(_, _, _, _, _)
restore_all(projs, cch, filesys, clock, entries) ==
    IF entries = {} THEN projs
    ELSE LET project_id == CHOOSE id \in entries : TRUE
             tar_path == Get(cch.data[project_id], "tar_path", "")
             r == load_project(projs, cch, filesys, clock, project_id, tar_path, TRUE)
             restored == IF tar_path # "" /\ exists(filesys, tar_path)
                         THEN r.projects   \* unchanged when the load raised
                         ELSE projs
         IN restore_all(restored, cch, filesys, clock, entries \ {project_id})

\* __init__: self.projects = {} and then _load_projects_cache()
_load_projects_cache(cch, filesys, clock) ==
    IF cch.exists
    THEN restore_all(EmptyDict, cch, filesys, clock, DOMAIN cch.data)
    ELSE EmptyDict

(***************************************************************************)
(* The REST routes' answers: the status a route gives an exception of the  *)
(* analyzer.                                                               *)
(***************************************************************************)
\* get_project, compare_projects, get_file_diff, generate_mode2_config:
\* except ValueError -> 404, except Exception -> 500
status_404_500(exc) ==
    IF exc = "" THEN 200 ELSE IF exc = "ValueError" THEN 404 ELSE 500

\* upload_project: except ValueError -> 400, except Exception -> 500
status_400_500(exc) ==
    IF exc = "" THEN 200 ELSE IF exc = "ValueError" THEN 400 ELSE 500

\* the body of an answer: the result, or {'error': str(e)}
response_body(r) == IF r.exc = "" THEN r.value ELSE [error |-> r.exc]

\* the record of a completed call (a load also records, as "had", whether the
\* project id was in the map before it)
Call(route, op, args, exc, status, body) ==
    [route |-> route, op |-> op, args |-> args,
     exc |-> exc, status |-> status, body |-> body]

NoBody == [none |-> TRUE]
NoCall == Call("none", "none", <<>>, "", 0, NoBody)
NoSweep == [pending |-> FALSE]
NoLock == [owner |-> "none", depth |-> 0]
NoRecorder == [mode |-> 0]
Threads == {"t1", "t2"}

(***************************************************************************)
(* SpecDiff: projects p1 and p2 loaded from two archives with arbitrary    *)
(* manifests, then compared in every pairing.                              *)
(***************************************************************************)
InitDiff ==
    \E mA \in Manifests, mB \in Manifests :
        LET path1 == upload_filepath("p1", "a.tar.gz")
            path2 == upload_filepath("p2", "a.tar.gz")
            disk == [path \in TarPaths |->
                        IF path = path1 THEN ManifestOnlyTar(mA)
                        ELSE IF path = path2 THEN ManifestOnlyTar(mB)
                        ELSE NoFile]
            r1 == load_project(EmptyDict, NoCacheFile, disk, 1,
                               "p1", path1, FALSE)
            r2 == load_project(r1.projects, r1.cache, disk, 2,
                               "p2", path2, FALSE)
        IN /\ fs = disk
           /\ projects = r2.projects
           /\ cache = r2.cache
           /\ now = 3
           /\ last = NoCall
           /\ sweep = NoSweep
           /\ lock = NoLock
           /\ pc = [t \in Threads |-> "idle"]
           /\ loc = [t \in Threads |-> EmptyDict]
           /\ rec = NoRecorder

\* GET /api/compare/<project1_id>/<project2_id>
Compare(project1_id, project2_id) ==
    LET r == compare_projects(projects, now, project1_id, project2_id)
    IN /\ last' = Call("compare_projects", "compare_projects",
                       <<project1_id, project2_id>>,
                       r.exc, status_404_500(r.exc), response_body(r))
       /\ UNCHANGED <<fs, projects, cache, now, sweep, lock, pc, loc, rec>>

NextDiff == \E project1_id \in DOMAIN projects, project2_id \in DOMAIN projects :
                Compare(project1_id, project2_id)

SpecDiff == InitDiff /\ [][NextDiff]_vars

(***************************************************************************)
(* Spec: the store driven through the routes and the analyzer's methods,   *)
(* one whole call per step.  Files reach the upload folder by uploads and  *)
(* leave it when something outside removes them.                           *)
(***************************************************************************)
\* the manifests and archives that are uploaded
ManifestA ==
    [metadata |-> [version |-> "2.0"],
     files |-> ("/x/a.txt" :> [path |-> "/x/a.txt", hash |-> "h1"]),
     directories |-> ("/x" :> [path |-> "/x"]),
     errors |-> <<>>]

ManifestB ==
    [metadata |-> [version |-> "2.0"],
     files |-> ("/x/a.txt" :> [path |-> "/x/a.txt", hash |-> "h2"])
               @@ ("/x/b.txt" :> [path |-> "/x/b.txt", hash |-> "h3"]),
     directories |-> ("/x" :> [path |-> "/x"]),
     errors |-> <<>>]

\* "a", in ArchiveB "a\nb"; /x/b.txt is an empty file
ArchiveA ==
    Tar(("manifest.json" :> JsonMember(ManifestA))
        @@ ("archived_files" :> DirMember)
        @@ ("archived_files/x" :> DirMember)
        @@ ("archived_files/x/a.txt" :> FileMember(<<97>>)))

ArchiveB ==
    Tar(("manifest.json" :> JsonMember(ManifestB))
        @@ ("archived_files" :> DirMember)
        @@ ("archived_files/x" :> DirMember)
        @@ ("archived_files/x/a.txt" :> FileMember(<<97, 10, 98>>))
        @@ ("archived_files/x/b.txt" :> FileMember(<<>>)))

NoManifestTar == Tar(("archived_files" :> DirMember))

Uploads == {ArchiveA, ArchiveB, NoManifestTar, GarbageFile, EmptyFile}

\* the paths a file diff is asked for
DiffPaths == {"/x/a.txt", "/x/b.txt", "/x"}

Init ==
    /\ fs = [path \in TarPaths |-> NoFile]
    /\ projects = EmptyDict
    /\ cache = NoCacheFile
    /\ now = 1
    /\ last = NoCall
    /\ sweep = NoSweep
    /\ lock = NoLock
    /\ pc = [t \in Threads |-> "idle"]
    /\ loc = [t \in Threads |-> EmptyDict]
    /\ rec = NoRecorder

\* the clock after a call that read it for a load time
Tick(loaded) == IF loaded THEN now + 1 ELSE now

\* POST /api/upload: file.save(filepath), then analyzer.load_project
Upload(project_id, filename, file) ==
    LET filepath == upload_filepath(project_id, filename)
        saved == [fs EXCEPT ![filepath] = file]
        r == load_project(projects, cache, saved, now, project_id, filepath, FALSE)
    IN /\ now <= MaxTime
       /\ fs' = saved
       /\ projects' = r.projects
       /\ cache' = r.cache
       /\ now' = Tick(r.exc = "")
       /\ last' = ("had" :> (project_id \in DOMAIN projects))
                   @@ Call("upload_project", "load_project", <<project_id, filepath>>,
                           r.exc, status_400_500(r.exc), response_body(r))
       /\ UNCHANGED <<sweep, lock, pc, loc, rec>>

\* analyzer.load_project(project_id, tar_path), called directly
LoadProject(project_id, tar_path) ==
    LET r == load_project(projects, cache, fs, now, project_id, tar_path, FALSE)
    IN /\ now <= MaxTime
       /\ projects' = r.projects
       /\ cache' = r.cache
       /\ now' = Tick(r.exc = "")
       /\ last' = ("had" :> (project_id \in DOMAIN projects))
                   @@ Call("none", "load_project", <<project_id, tar_path>>,
                           r.exc, 0, response_body(r))
       /\ UNCHANGED <<fs, sweep, lock, pc, loc, rec>>

\* GET /api/projects/<project_id>
GetProject(project_id) ==
    LET r == get_project_summary(projects, project_id)
    IN /\ last' = Call("get_project", "get_project_summary", <<project_id>>,
                       r.exc, status_404_500(r.exc), response_body(r))
       /\ UNCHANGED <<fs, projects, cache, now, sweep, lock, pc, loc, rec>>

\* POST /api/diff/<project1_id>/<project2_id> with the JSON body data
FileDiff(project1_id, project2_id, data) ==
    IF "file_path" \notin DOMAIN data
    THEN /\ last' = Call("get_file_diff", "none", <<project1_id, project2_id, data>>,
                         "", 400, [error |-> "File path required"])
         /\ UNCHANGED <<fs, projects, cache, now, sweep, lock, pc, loc, rec>>
    ELSE LET r == get_file_diff(projects, fs, project1_id, project2_id, data.file_path)
         IN /\ last' = Call("get_file_diff", "get_file_diff",
                            <<project1_id, project2_id, data>>,
                            r.exc, status_404_500(r.exc), response_body(r))
            /\ UNCHANGED <<fs, projects, cache, now, sweep, lock, pc, loc, rec>>

\* GET /api/generate-config/<project1_id>/<project2_id>
GenerateConfig(project1_id, project2_id) ==
    \E seed \in 0..MaxSeed :
        LET r == generate_mode2_config(projects, now, seed, project1_id, project2_id)
        IN /\ last' = Call("generate_mode2_config", "generate_mode2_config",
                           <<project1_id, project2_id>>,
                           r.exc, status_404_500(r.exc), response_body(r))
           /\ UNCHANGED <<fs, projects, cache, now, sweep, lock, pc, loc, rec>>

\* GET /api/export/<project1_id>/<project2_id>/<format>
Export(project1_id, project2_id, format) ==
    LET r == export_comparison(projects, now, project1_id, project2_id, format)
    IN /\ last' = Call("export_comparison", "export_comparison",
                       <<project1_id, project2_id, format>>, "", r.status, r.body)
       /\ UNCHANGED <<fs, projects, cache, now, sweep, lock, pc, loc, rec>>

\* DELETE /api/projects/<project_id>
DeleteProject(project_id) ==
    LET r == delete_project(projects, cache, project_id)
    IN /\ projects' = r.projects
       /\ cache' = r.cache
       /\ last' = Call("delete_project", "delete_project", <<project_id>>, "", 200,
                       [removed |-> DOMAIN projects \ DOMAIN r.projects])
       /\ UNCHANGED <<fs, now, sweep, lock, pc, loc, rec>>

\* analyzer.cleanup_project(project_id), called directly
CleanupProject(project_id) ==
    LET r == cleanup_project(projects, cache, project_id)
    IN /\ projects' = r.projects
       /\ cache' = r.cache
       /\ last' = Call("none", "cleanup_project", <<project_id>>, "", 0,
                       [removed |-> DOMAIN projects \ DOMAIN r.projects])
       /\ UNCHANGED <<fs, now, sweep, lock, pc, loc, rec>>

\* the projects whose archive is missing, each with its load time
Missing == {<<id, projects[id].loaded_at>> : id \in
               {i \in DOMAIN projects : ~exists(fs, projects[i].tar_path)}}

\* analyzer.cleanup_stale_projects(): called directly, or by GET /api/projects
\* (list_projects), which then builds its listing in a second locked region
CleanupStale(from_list) ==
    LET r == cleanup_stale_projects(projects, cache, fs)
    IN /\ ~sweep.pending
       /\ projects' = r.projects
       /\ cache' = r.cache
       /\ sweep' = IF from_list THEN [pending |-> TRUE, stale |-> Missing]
                   ELSE sweep
       /\ last' = Call(IF from_list THEN "list_projects" ELSE "none",
                       "cleanup_stale_projects", <<>>, "", 0,
                       [removed |-> DOMAIN projects \ DOMAIN r.projects])
       /\ UNCHANGED <<fs, now, lock, pc, loc, rec>>

\* the summaries of list_projects, in the order CHOOSE picks the keys
RECURSIVE summaries(_, _)
summaries(projs, project_ids) ==
    IF project_ids = {} THEN <<>>
    ELSE LET project_id == CHOOSE id \in project_ids : TRUE
             r == get_project_summary(projs, project_id)
         IN (IF r.exc = "" THEN <<r.value>> ELSE <<>>)
            \o summaries(projs, project_ids \ {project_id})

list_response(projs, clock) ==
    LET listed == summaries(projs, DOMAIN projs)
    IN [projects |-> listed, total_count |-> Len(listed), timestamp |-> clock]

\* list_projects after its sweep: the listing
ListProjects ==
    /\ sweep.pending
    /\ sweep' = NoSweep
    /\ last' = [Call("list_projects", "list_projects", <<>>, "", 200,
                     list_response(projects, now))
                EXCEPT !.args = <<sweep.stale>>]
    /\ UNCHANGED <<fs, projects, cache, now, lock, pc, loc, rec>>

\* the process starts again: ProjectAnalyzer() over the cache file on disk
Restart ==
    LET restored == _load_projects_cache(cache, fs, now)
    IN /\ now <= MaxTime
       /\ projects' = restored
       /\ now' = Tick(restored # EmptyDict)
       /\ sweep' = NoSweep
       /\ last' = Call("none", "__init__", <<>>, "", 0, NoBody)
       /\ UNCHANGED <<fs, cache, lock, pc, loc, rec>>

\* something outside the program removes an archive from the upload folder
RemoveArchive(tar_path) ==
    /\ exists(fs, tar_path)
    /\ fs' = [fs EXCEPT ![tar_path] = NoFile]
    /\ last' = NoCall
    /\ UNCHANGED <<projects, cache, now, sweep, lock, pc, loc, rec>>

Next ==
    \/ \E project_id \in Ids, filename \in Filenames, file \in Uploads :
           Upload(project_id, filename, file)
    \/ \E project_id \in Ids, tar_path \in TarPaths : LoadProject(project_id, tar_path)
    \/ \E project_id \in Ids : DeleteProject(project_id)
    \/ \E project_id \in Ids : CleanupProject(project_id)
    \/ \E from_list \in BOOLEAN : CleanupStale(from_list)
    \/ ListProjects
    \/ Restart
    \/ \E tar_path \in TarPaths : RemoveArchive(tar_path)

Spec == Init /\ [][Next]_vars

(***************************************************************************)
(* SpecQuery: the routes that read the store, on a store that loaded some  *)
(* of the project ids from archives of the upload folder, whose files may  *)
(* have been replaced or removed since.                                    *)
(***************************************************************************)
Files == Uploads \cup {NoFile}

\* the store after loading the ids of todo, each from its path, in turn
RECURSIVE loaded_store(_, _, _, _)
loaded_store(projs, filesys, tar_path_of, todo) ==
    IF todo = {} THEN projs
    ELSE LET project_id == CHOOSE id \in todo : TRUE
             r == load_project(projs, NoCacheFile, filesys,
                               Cardinality(DOMAIN projs) + 1,
                               project_id, tar_path_of[project_id], FALSE)
         IN loaded_store(r.projects, filesys, tar_path_of, todo \ {project_id})

InitQuery ==
    \E then \in [TarPaths -> Files], tar_path_of \in [Ids -> TarPaths],
       todo \in SUBSET Ids, disk \in [TarPaths -> Files] :
        /\ fs = disk
        /\ projects = loaded_store(EmptyDict, then, tar_path_of, todo)
        /\ cache = _save_projects_cache(projects)
        /\ now = 3
        /\ last = NoCall
        /\ sweep = NoSweep
        /\ lock = NoLock
        /\ pc = [t \in Threads |-> "idle"]
        /\ loc = [t \in Threads |-> EmptyDict]
        /\ rec = NoRecorder

NextQuery ==
    \/ \E project_id \in Ids : GetProject(project_id)
    \/ \E project1_id \in Ids, project2_id \in Ids : Compare(project1_id, project2_id)
    \/ \E project1_id \in Ids, project2_id \in Ids,
          data \in {EmptyDict} \cup {[file_path |-> p] : p \in DiffPaths} :
           FileDiff(project1_id, project2_id, data)
    \/ \E project1_id \in Ids, project2_id \in Ids :
           GenerateConfig(project1_id, project2_id)
    \/ \E project1_id \in Ids, project2_id \in Ids,
          format \in {"csv", "json", "invalid"} :
           Export(project1_id, project2_id, format)

SpecQuery == InitQuery /\ [][NextQuery]_vars

(***************************************************************************)
(* SpecConc: the analyzer called from two threads.  A call is a sequence   *)
(* of steps: a "with self._lock" waits for the lock and holds it up to the *)
(* return; the membership test, each self.projects[...] lookup and the del *)
(* are steps of their own, between which the other thread can run.  A call *)
(* keeps the exception it raises in loc[t].exc until it returns; the       *)
(* results of the reading calls are those of SpecQuery and are not kept.   *)
(***************************************************************************)
ConcOps == {"load_project", "get_project_summary", "compare_projects",
            "get_file_diff", "generate_mode2_config", "cleanup_project",
            "delete_project", "cleanup_stale_projects"}

\* the operations whose body is inside "with self._lock"
LockedOps == {"load_project", "get_project_summary", "compare_projects",
              "delete_project", "cleanup_stale_projects"}

\* the operations that end with "del self.projects[project_id]"
RemovingOps == {"cleanup_project", "delete_project"}

\* the project ids an operation takes
ConcArgs(op) ==
    IF op = "cleanup_stale_projects" THEN {<<>>}
    ELSE IF op \in {"compare_projects", "get_file_diff", "generate_mode2_config"}
    THEN {<<project1_id, project2_id>> : project1_id \in Ids, project2_id \in Ids}
    ELSE {<<project_id>> : project_id \in Ids}

\* the first step of an operation's body
first_step(op) ==
    IF op = "load_project" THEN "store"
    ELSE IF op = "cleanup_stale_projects" THEN "sweep"
    ELSE "check"

\* p1 and p2 were uploaded and loaded, then the archive of p2 was removed
InitConc ==
    LET path1 == upload_filepath("p1", "a.tar.gz")
        path2 == upload_filepath("p2", "a.tar.gz")
        disk == [path \in TarPaths |->
                    IF path = path1 THEN ArchiveA
                    ELSE IF path = path2 THEN ArchiveB
                    ELSE NoFile]
        r1 == load_project(EmptyDict, NoCacheFile, disk, 1, "p1", path1, FALSE)
        r2 == load_project(r1.projects, r1.cache, disk, 2, "p2", path2, FALSE)
    IN /\ fs = [disk EXCEPT ![path2] = NoFile]
       /\ projects = r2.projects
       /\ cache = r2.cache
       /\ now = 3
    /\ last = NoCall
    /\ sweep = NoSweep
    /\ lock = NoLock
    /\ pc = [t \in Threads |-> "idle"]
    /\ loc = [t \in Threads |-> EmptyDict]
    /\ rec = NoRecorder

\* thread t enters operation op with the project ids args
Begin(t, op, args) ==
    /\ pc[t] = "idle"
    /\ op = "load_project" => now <= MaxTime
    /\ loc' = [loc EXCEPT ![t] = [op |-> op, args |-> args, i |-> 1, exc |-> ""]]
    /\ pc' = [pc EXCEPT ![t] = IF op \in LockedOps THEN "acquire" ELSE first_step(op)]
    /\ UNCHANGED <<fs, projects, cache, now, last, sweep, lock, rec>>

\* with self._lock: t waits until no thread holds the lock
Acquire(t) ==
    /\ pc[t] = "acquire"
    /\ lock.owner = "none"
    /\ lock' = [owner |-> t, depth |-> 1]
    /\ pc' = [pc EXCEPT ![t] = first_step(loc[t].op)]
    /\ UNCHANGED <<fs, projects, cache, now, last, sweep, loc, rec>>

\* the membership test: "if ... not in self.projects: raise ValueError", or
\* "if project_id in self.projects:" for the removing operations
Check(t) ==
    /\ pc[t] = "check"
    /\ IF \A i \in 1..Len(loc[t].args) : loc[t].args[i] \in DOMAIN projects
       THEN /\ pc' = [pc EXCEPT ![t] = "lookup"]
            /\ loc' = loc
       ELSE /\ pc' = [pc EXCEPT ![t] = "return"]
            /\ loc' = [loc EXCEPT ![t].exc =
                          IF loc[t].op \in RemovingOps THEN "" ELSE "ValueError"]
    /\ UNCHANGED <<fs, projects, cache, now, last, sweep, lock, rec>>

\* project = self.projects[project_id], once for each id of the call
Lookup(t) ==
    /\ pc[t] = "lookup"
    /\ IF loc[t].args[loc[t].i] \notin DOMAIN projects
       THEN /\ pc' = [pc EXCEPT ![t] = "return"]
            /\ loc' = [loc EXCEPT ![t].exc = "KeyError"]
       ELSE IF loc[t].i < Len(loc[t].args)
       THEN /\ pc' = pc
            /\ loc' = [loc EXCEPT ![t].i = @ + 1]
       ELSE /\ pc' = [pc EXCEPT ![t] =
                         IF loc[t].op \in RemovingOps THEN "remove" ELSE "return"]
            /\ loc' = loc
    /\ UNCHANGED <<fs, projects, cache, now, last, sweep, lock, rec>>

\* del self.projects[project_id]; delete_project then saves the cache file
Remove(t) ==
    /\ pc[t] = "remove"
    /\ pc' = [pc EXCEPT ![t] = "return"]
    /\ IF loc[t].args[1] \notin DOMAIN projects
       THEN /\ loc' = [loc EXCEPT ![t].exc = "KeyError"]
            /\ UNCHANGED <<projects, cache>>
       ELSE /\ loc' = loc
            /\ projects' = DictDel(projects, loc[t].args[1])
            /\ cache' = IF loc[t].op = "delete_project"
                        THEN _save_projects_cache(projects')
                        ELSE cache
    /\ UNCHANGED <<fs, now, last, sweep, lock, rec>>

\* the body of load_project, of the archive uploaded for the id
Store(t) ==
    /\ pc[t] = "store"
    /\ LET project_id == loc[t].args[1]
           r == load_project(projects, cache, fs, now, project_id,
                             upload_filepath(project_id, "a.tar.gz"), FALSE)
       IN /\ projects' = r.projects
          /\ cache' = r.cache
          /\ now' = Tick(r.exc = "")
          /\ loc' = [loc EXCEPT ![t].exc = r.exc]
    /\ pc' = [pc EXCEPT ![t] = "return"]
    /\ UNCHANGED <<fs, last, sweep, lock, rec>>

\* the body of cleanup_stale_projects
SweepStale(t) ==
    /\ pc[t] = "sweep"
    /\ LET r == cleanup_stale_projects(projects, cache, fs)
       IN /\ projects' = r.projects
          /\ cache' = r.cache
    /\ pc' = [pc EXCEPT ![t] = "return"]
    /\ UNCHANGED <<fs, now, last, sweep, lock, loc, rec>>

\* the call returns or raises, leaving the "with" block if it is in one
Return(t) ==
    /\ pc[t] = "return"
    /\ lock' = IF lock.owner = t THEN NoLock ELSE lock
    /\ pc' = [pc EXCEPT ![t] = "idle"]
    /\ loc' = [loc EXCEPT ![t] = EmptyDict]
    /\ UNCHANGED <<fs, projects, cache, now, last, sweep, rec>>

NextConc ==
    \/ \E t \in Threads, op \in ConcOps : \E args \in ConcArgs(op) : Begin(t, op, args)
    \/ \E t \in Threads : Acquire(t)
    \/ \E t \in Threads : Check(t)
    \/ \E t \in Threads : Lookup(t)
    \/ \E t \in Threads : Remove(t)
    \/ \E t \in Threads : Store(t)
    \/ \E t \in Threads : SweepStale(t)
    \/ \E t \in Threads : Return(t)

SpecConc == InitConc /\ [][NextConc]_vars

(***************************************************************************)
(* SpecLock: the store lock.  Each thread runs a stack of calls, loc[t];   *)
(* a frame holds the operation, its project ids, the project ids its loop  *)
(* has still to visit, and the step at which it goes on when the call it   *)
(* made returns.  pc[t] is the step of the innermost call.  A "with        *)
(* self._lock" is the step "acquire", the body and its loop are "body" and *)
(* "loop", and leaving the "with" block and returning is "release".        *)
(* delete_project is called inside cleanup_stale_projects, and             *)
(* get_project_summary inside list_projects, with the lock held.           *)
(***************************************************************************)
LockOps == {"load_project", "get_project_summary", "compare_projects",
            "delete_project", "cleanup_stale_projects", "list_projects"}

\* the project ids an operation takes
LockArgs(op) ==
    IF op \in {"cleanup_stale_projects", "list_projects"} THEN {<<>>}
    ELSE IF op = "compare_projects"
    THEN {<<project1_id, project2_id>> : project1_id \in Ids, project2_id \in Ids}
    ELSE {<<project_id>> : project_id \in Ids}

\* a frame of the call stack
Frame(op, args) == [op |-> op, args |-> args, todo |-> <<>>, at |-> "acquire"]

\* the innermost call of thread t
Top(t) == loc[t][Len(loc[t])]

\* thread t's stack with the fields of its innermost frame replaced
WithTop(t, todo, at) ==
    [loc[t] EXCEPT ![Len(loc[t])] = [@ EXCEPT !.todo = todo, !.at = at]]

\* the project ids of a set as a list
ids_of(a_set) == SelectSeq(<<"p1", "p2">>, LAMBDA id : id \in a_set)

\* a threading.Lock: a thread that holds it waits for itself
Lock_acquirable(l, t) == l.owner = "none"

\* threading.RLock: free, or held by the thread that asks for it
RLock_acquirable(l, t) == l.owner \in {"none", t}

InitLock ==
    LET path1 == upload_filepath("p1", "a.tar.gz")
        path2 == upload_filepath("p2", "a.tar.gz")
        disk == [path \in TarPaths |->
                    IF path = path1 THEN ArchiveA
                    ELSE IF path = path2 THEN ArchiveB
                    ELSE NoFile]
        r1 == load_project(EmptyDict, NoCacheFile, disk, 1, "p1", path1, FALSE)
        r2 == load_project(r1.projects, r1.cache, disk, 2, "p2", path2, FALSE)
    IN /\ fs = [disk EXCEPT ![path2] = NoFile]
       /\ projects = r2.projects
       /\ cache = r2.cache
       /\ now = 3
       /\ last = NoCall
       /\ sweep = NoSweep
       /\ lock = NoLock
       /\ pc = [t \in Threads |-> "idle"]
       /\ loc = [t \in Threads |-> <<>>]
       /\ rec = NoRecorder

\* thread t is given a request: list_projects first calls
\* cleanup_stale_projects, every other operation starts with its "with"
Enter(t, op, args) ==
    /\ pc[t] = "idle"
    /\ op = "load_project" => now <= MaxTime
    /\ loc' = [loc EXCEPT ![t] = <<Frame(op, args)>>]
    /\ pc' = [pc EXCEPT ![t] = IF op = "list_projects" THEN "sweep" ELSE "acquire"]
    /\ UNCHANGED <<fs, projects, cache, now, last, sweep, lock, rec>>

\* list_projects: analyzer.cleanup_stale_projects(), before its own "with"
CallSweep(t) ==
    /\ pc[t] = "sweep"
    /\ loc' = [loc EXCEPT ![t] = Append(WithTop(t, <<>>, "acquire"),
                                        Frame("cleanup_stale_projects", <<>>))]
    /\ pc' = [pc EXCEPT ![t] = "acquire"]
    /\ UNCHANGED <<fs, projects, cache, now, last, sweep, lock, rec>>

\* with self._lock: t waits until it can have the lock
LockAcquire(t) ==
    /\ pc[t] = "acquire"
    /\ RLock_acquirable(lock, t)
    /\ lock' = [owner |-> t, depth |-> lock.depth + 1]
    /\ pc' = [pc EXCEPT ![t] = "body"]
    /\ UNCHANGED <<fs, projects, cache, now, last, sweep, loc, rec>>

\* the body of the innermost call up to its loop, or all of it
RunBody(t) ==
    /\ pc[t] = "body"
    /\ LET op == Top(t).op
           args == Top(t).args
       IN IF op = "load_project"
          THEN LET r == load_project(projects, cache, fs, now, args[1],
                                     upload_filepath(args[1], "a.tar.gz"), FALSE)
               IN /\ projects' = r.projects
                  /\ cache' = r.cache
                  /\ now' = Tick(r.exc = "")
                  /\ loc' = loc
                  /\ pc' = [pc EXCEPT ![t] = "release"]
          ELSE IF op = "delete_project"
          THEN LET r == delete_project(projects, cache, args[1])
               IN /\ projects' = r.projects
                  /\ cache' = r.cache
                  /\ now' = now
                  /\ loc' = loc
                  /\ pc' = [pc EXCEPT ![t] = "release"]
          ELSE IF op = "cleanup_stale_projects"
          THEN /\ loc' = [loc EXCEPT ![t] =
                             WithTop(t, ids_of(stale_projects(projects, fs)), "loop")]
               /\ pc' = [pc EXCEPT ![t] = "loop"]
               /\ UNCHANGED <<projects, cache, now>>
          ELSE IF op = "list_projects"
          THEN /\ loc' = [loc EXCEPT ![t] =
                             WithTop(t, ids_of(DOMAIN projects), "loop")]
               /\ pc' = [pc EXCEPT ![t] = "loop"]
               /\ UNCHANGED <<projects, cache, now>>
          ELSE /\ pc' = [pc EXCEPT ![t] = "release"]
               /\ UNCHANGED <<projects, cache, now, loc>>
    /\ UNCHANGED <<fs, last, sweep, lock, rec>>

\* one round of the loop of cleanup_stale_projects or of list_projects: the
\* call of delete_project or of get_project_summary for the next project id
Loop(t) ==
    /\ pc[t] = "loop"
    /\ LET todo == Top(t).todo
       IN IF todo = <<>>
          THEN /\ pc' = [pc EXCEPT ![t] = "release"]
               /\ loc' = loc
          ELSE IF Top(t).op = "list_projects" /\ Head(todo) \notin DOMAIN projects
          THEN /\ pc' = pc
               /\ loc' = [loc EXCEPT ![t] = WithTop(t, Tail(todo), "loop")]
          ELSE /\ pc' = [pc EXCEPT ![t] = "acquire"]
               /\ loc' = [loc EXCEPT ![t] =
                             Append(WithTop(t, Tail(todo), "loop"),
                                    Frame(IF Top(t).op = "list_projects"
                                          THEN "get_project_summary"
                                          ELSE "delete_project",
                                          <<Head(todo)>>))]
    /\ UNCHANGED <<fs, projects, cache, now, last, sweep, lock, rec>>

\* the innermost call leaves its "with" block and returns to its caller
LockRelease(t) ==
    /\ pc[t] = "release"
    /\ lock' = IF lock.depth = 1 THEN NoLock ELSE [lock EXCEPT !.depth = @ - 1]
    /\ loc' = [loc EXCEPT ![t] = SubSeq(loc[t], 1, Len(loc[t]) - 1)]
    /\ pc' = [pc EXCEPT ![t] = IF Len(loc[t]) = 1 THEN "idle"
                               ELSE loc[t][Len(loc[t]) - 1].at]
    /\ UNCHANGED <<fs, projects, cache, now, last, sweep, rec>>

NextLock ==
    \/ \E t \in Threads, op \in LockOps : \E args \in LockArgs(op) : Enter(t, op, args)
    \/ \E t \in Threads : CallSweep(t)
    \/ \E t \in Threads : LockAcquire(t)
    \/ \E t \in Threads : RunBody(t)
    \/ \E t \in Threads : Loop(t)
    \/ \E t \in Threads : LockRelease(t)

\* a thread that can take a step takes one, and a thread that waits for the
\* lock gets it if the lock is free again and again; no request has to come
LockFairness ==
    \A t \in Threads :
        /\ WF_vars(CallSweep(t) \/ RunBody(t) \/ Loop(t) \/ LockRelease(t))
        /\ SF_vars(LockAcquire(t))

SpecLock == InitLock /\ [][NextLock]_vars /\ LockFairness

(***************************************************************************)
(* SystemRecorder.generate_mode2_config: the recorder's own synthesizer,   *)
(* which reads the two manifests from the project archives.                *)
(***************************************************************************)
\* _load_project_manifest: the manifest.json of the archive; None, which the
\* caller does not tell apart from an empty dict, when it cannot be read
_load_project_manifest(filesys, tar_path) ==
    IF ~exists(filesys, tar_path) THEN EmptyDict
    ELSE IF filesys[tar_path].kind # "tar" THEN EmptyDict
    ELSE IF "manifest.json" \notin DOMAIN filesys[tar_path].members THEN EmptyDict
    ELSE filesys[tar_path].members["manifest.json"].json

\* the recorder's classification of the paths: entry.get("hash", "")
recorder_changed_files(before_files, after_files) ==
    [new_files |-> DOMAIN after_files \ DOMAIN before_files,
     deleted_files |-> DOMAIN before_files \ DOMAIN after_files,
     modified_files |-> {filepath \in DOMAIN before_files \cap DOMAIN after_files :
                            Get(before_files[filepath], "hash", "")
                                # Get(after_files[filepath], "hash", "")}]

\* the configuration the recorder writes; its one set file_extensions holds
\* both the "*<suffix>" patterns and the names with a marker
recorder_mode2_config(before_manifest, after_manifest, before_project, after_project, clock, seed) ==
    LET ch == recorder_changed_files(Get(before_manifest, "files", EmptyDict),
                                     Get(after_manifest, "files", EmptyDict))
        all_changed_files == ch.new_files \cup ch.deleted_files \cup ch.modified_files
        extensions == file_extensions(all_changed_files)
                          \cup specific_files(all_changed_files)
        include == IF extensions # {}
                   THEN sorted(list_of(extensions, seed))
                   ELSE <<"*">>
    IN [logging |-> [level |-> "INFO"],
        paths |->
          [scan |-> sorted(list_of(directories(all_changed_files), seed)),
           include |-> include,
           exclude |-> <<"*/tmp/*", "*/temp/*", "*/.git/*", "*/__pycache__/*",
                         "*.pyc", "*/cache/*", "*/logs/*.log.*">>],
        archive |->
          [max_file_size |-> 104857600,
           patterns |-> include,
           exclude_from_archive |-> <<"*/passwd", "*/shadow", "*/sudoers",
                                      "*/.ssh/*", "*/ssl/private/*", "*/keys/*",
                                      "*/secrets/*">>],
        performance |-> [worker_threads |-> 4, hash_chunk_size |-> 65536,
                         max_files |-> 0],
        mode2_metadata |->
          [generated_from |-> [before_project |-> before_project,
                               after_project |-> after_project,
                               generated_at |-> clock],
           changes_summary |-> [new_files |-> Cardinality(ch.new_files),
                                deleted_files |-> Cardinality(ch.deleted_files),
                                modified_files |-> Cardinality(ch.modified_files),
                                total_changes |-> Cardinality(all_changed_files)]]]

recorder_generate_mode2_config(filesys, clock, seed, before_project, after_project) ==
    LET before_manifest == _load_project_manifest(filesys, before_project)
        after_manifest == _load_project_manifest(filesys, after_project)
    IN IF before_manifest = EmptyDict \/ after_manifest = EmptyDict
       THEN [exc |-> "ValueError"]
       ELSE [exc |-> "",
             value |-> recorder_mode2_config(before_manifest, after_manifest,
                                             before_project, after_project,
                                             clock, seed)]

\* systemRecord generate-config <before_project> <after_project>
RecorderGenerateConfig(before_project, after_project) ==
    \E seed \in 0..MaxSeed :
        LET r == recorder_generate_mode2_config(fs, now, seed,
                                                before_project, after_project)
        IN /\ last' = Call("none", "SystemRecorder.generate_mode2_config",
                           <<before_project, after_project>>,
                           r.exc, 0, response_body(r))
           /\ UNCHANGED <<fs, projects, cache, now, sweep, lock, pc, loc, rec>>

(***************************************************************************)
(* SpecConfig: generate_mode2_config on two loaded projects whose          *)
(* manifests range over files with and without a suffix and with and       *)
(* without a configuration marker in the name; the calls are made at       *)
(* different times and in processes with different set iteration orders.   *)
(***************************************************************************)
NumConfigPaths == 4
ConfigPaths == {AllConfigPaths[i] : i \in 1..NumConfigPaths}

\* a manifest whose files are the paths of hash_of, with those hashes; an
\* entry of hash NoneHash has no hash field
ConfigManifest(hash_of) ==
    [metadata |-> [version |-> "2.0"],
     files |-> [p \in DOMAIN hash_of |->
                   IF hash_of[p] = NoneHash THEN [path |-> p]
                   ELSE [path |-> p, hash |-> hash_of[p]]],
     directories |-> EmptyDict,
     errors |-> <<>>]

\* the pairs of manifests: between the two recordings each file stays as it
\* is, is modified, appears, disappears, or is in neither; the pair of
\* ManifestA and ManifestB; and the pairs in which the entry of one file has
\* a hash, an empty hash or no hash field
ConfigPairs ==
    {<<ConfigManifest([p \in {q \in ConfigPaths :
                                 change[q] \in {"same", "modified", "deleted"}}
                          |-> "h1"]),
       ConfigManifest([p \in {q \in ConfigPaths :
                                 change[q] \in {"same", "modified", "new"}}
                          |-> IF change[p] = "same" THEN "h1" ELSE "h2"])>> :
        change \in [ConfigPaths -> {"same", "modified", "new", "deleted", "absent"}]}
    \cup {<<ManifestA, ManifestB>>}
    \cup {<<ConfigManifest(AllConfigPaths[1] :> h1),
             ConfigManifest(AllConfigPaths[1] :> h2)>> :
              h1 \in {NoneHash, "", "h1"}, h2 \in {NoneHash, "", "h1"}}

InitConfig ==
    \E pair \in ConfigPairs :
        LET path1 == upload_filepath("p1", "a.tar.gz")
            path2 == upload_filepath("p2", "a.tar.gz")
            disk == [path \in TarPaths |->
                        IF path = path1 THEN ManifestOnlyTar(pair[1])
                        ELSE IF path = path2 THEN ManifestOnlyTar(pair[2])
                        ELSE NoFile]
            r1 == load_project(EmptyDict, NoCacheFile, disk, 1, "p1", path1, FALSE)
            r2 == load_project(r1.projects, r1.cache, disk, 2, "p2", path2, FALSE)
        IN /\ fs = disk
           /\ projects = r2.projects
           /\ cache = r2.cache
           /\ now = MaxTime
           /\ last = NoCall
           /\ sweep = NoSweep
           /\ lock = NoLock
           /\ pc = [t \in Threads |-> "idle"]
           /\ loc = [t \in Threads |-> EmptyDict]
           /\ rec = NoRecorder

\* time passes between two requests
Pass ==
    /\ now <= MaxTime
    /\ now' = now + 1
    /\ UNCHANGED <<fs, projects, cache, last, sweep, lock, pc, loc, rec>>

NextConfig ==
    \/ \E project1_id \in Ids, project2_id \in Ids :
           GenerateConfig(project1_id, project2_id)
    \/ \E before_project \in TarPaths, after_project \in TarPaths :
           RecorderGenerateConfig(before_project, after_project)
    \/ Pass

SpecConfig == InitConfig /\ [][NextConfig]_vars

(***************************************************************************)
(* systemRecord: SystemRecorder.  The configuration is the dict the YAML   *)
(* file loads to; a key the file does not have is not in the dict.         *)
(***************************************************************************)
Modes == {1, 2}

\* 100 * 1024 * 1024, the default of archive.max_file_size
DEFAULT_MAX_FILE_SIZE == 104857600

\* any(path_obj.match(pattern) for pattern in patterns)
any_match(path, patterns) ==
    \E i \in 1..Len(patterns) : path_match(path, patterns[i])

\* _should_include_path applying the include patterns in Mode 1 as well
_should_include_path_both_modes(mode, config, path) ==
    LET include_patterns == Get(Get(config, "paths", EmptyDict), "include", <<>>)
        exclude_patterns == Get(Get(config, "paths", EmptyDict), "exclude", <<>>)
    IN IF include_patterns # <<>> /\ ~any_match(path, include_patterns) THEN FALSE
       ELSE IF exclude_patterns # <<>> /\ any_match(path, exclude_patterns) THEN FALSE
       ELSE TRUE

_should_include_path(mode, config, path) ==
    LET include_patterns == Get(Get(config, "paths", EmptyDict), "include", <<>>)
        exclude_patterns == Get(Get(config, "paths", EmptyDict), "exclude", <<>>)
    IN IF mode = 1
       THEN IF exclude_patterns # <<>> /\ any_match(path, exclude_patterns)
            THEN FALSE
            ELSE TRUE
       ELSE IF mode = 2
       THEN IF include_patterns # <<>> /\ ~any_match(path, include_patterns)
            THEN FALSE
            ELSE IF exclude_patterns # <<>> /\ any_match(path, exclude_patterns)
            THEN FALSE
            ELSE TRUE
       ELSE TRUE

\* _should_archive_file comparing "size >= max_size"
_should_archive_file_ge(mode, config, path, size) ==
    LET max_size == Get(Get(config, "archive", EmptyDict), "max_file_size",
                        DEFAULT_MAX_FILE_SIZE)
        archive_patterns == Get(Get(config, "archive", EmptyDict), "patterns", <<"*">>)
    IN IF mode = 1 THEN FALSE
       ELSE IF mode = 2
       THEN IF size >= max_size THEN FALSE
            ELSE any_match(path, archive_patterns)
       ELSE FALSE

\* _should_archive_file without the Mode 1 return
_should_archive_file_any_mode(mode, config, path, size) ==
    LET max_size == Get(Get(config, "archive", EmptyDict), "max_file_size",
                        DEFAULT_MAX_FILE_SIZE)
        archive_patterns == Get(Get(config, "archive", EmptyDict), "patterns", <<"*">>)
    IN IF size > max_size THEN FALSE
       ELSE any_match(path, archive_patterns)

_should_archive_file(mode, config, path, size) ==
    LET max_size == Get(Get(config, "archive", EmptyDict), "max_file_size",
                        DEFAULT_MAX_FILE_SIZE)
        archive_patterns == Get(Get(config, "archive", EmptyDict), "patterns", <<"*">>)
    IN IF mode = 1 THEN FALSE
       ELSE IF mode = 2
       THEN IF size > max_size THEN FALSE
            ELSE any_match(path, archive_patterns)
       ELSE FALSE

(***************************************************************************)
(* SpecFilter: a recorder of either mode, over a configuration with or     *)
(* without include and exclude patterns, asked about paths.                *)
(***************************************************************************)
\* the pattern lists a configuration of the model holds
PatternLists == {<<>>, <<"*.txt">>, <<"sub">>, <<"*.txt", "sub">>,
                 <<"App.CONF", "*/sub/*">>, <<"/x/*">>}

\* the paths the recorder is asked about
ScanPaths == {"/x", "/x/a.txt", "/x/App.CONF", "/x/sub", "/x/sub/c.txt"}

\* a dict with the keys of which the model gives a value
Dict(keys, values) == [k \in keys |-> values[k]]

\* the "paths" sections: with or without "include" and "exclude"
PathsSections ==
    {Dict(keys, [include |-> inc, exclude |-> exc]) :
        keys \in SUBSET {"include", "exclude"},
        inc \in PatternLists, exc \in PatternLists}

\* the largest size of the file whose size varies
MaxSize == 2

\* the max_file_size a configuration sets
SizeLimit == 1

\* the "archive" sections: with or without max_file_size and patterns
ArchiveSections ==
    {Dict(keys, [max_file_size |-> SizeLimit, patterns |-> <<"*.txt">>]) :
        keys \in SUBSET {"max_file_size", "patterns"}}

\* SystemRecorder with mode=2 as the default
SystemRecorder_mode2(config, args) ==
    [mode |-> Get(args, "mode", 2), args |-> args, config |-> config]

\* SystemRecorder(config_path, output_dir, mode=1): args holds the mode when
\* the caller gives one
SystemRecorder(config, args) ==
    [mode |-> Get(args, "mode", 1), args |-> args, config |-> config]

InitFilter ==
    \E args \in {EmptyDict} \cup {[mode |-> m] : m \in Modes},
       paths \in PathsSections, archive \in ArchiveSections :
        /\ rec = SystemRecorder([paths |-> paths, archive |-> archive], args)
        /\ fs = [path \in TarPaths |-> NoFile]
        /\ projects = EmptyDict
        /\ cache = NoCacheFile
        /\ now = 1
        /\ last = NoCall
        /\ sweep = NoSweep
        /\ lock = NoLock
        /\ pc = [t \in Threads |-> "idle"]
        /\ loc = [t \in Threads |-> EmptyDict]

\* recorder._should_include_path(path)
ShouldInclude(path) ==
    /\ last' = Call("none", "_should_include_path", <<path>>, "", 0,
                    [result |-> _should_include_path(rec.mode, rec.config, path)])
    /\ UNCHANGED <<fs, projects, cache, now, sweep, lock, pc, loc, rec>>

\* recorder._should_archive_file(path, size)
ShouldArchive(path, size) ==
    /\ last' = Call("none", "_should_archive_file", <<path, size>>, "", 0,
                    [result |-> _should_archive_file(rec.mode, rec.config, path, size)])
    /\ UNCHANGED <<fs, projects, cache, now, sweep, lock, pc, loc, rec>>

NextFilter ==
    \/ \E path \in ScanPaths : ShouldInclude(path)
    \/ \E path \in ScanPaths, size \in 0..MaxSize : ShouldArchive(path, size)

SpecFilter == InitFilter /\ [][NextFilter]_vars

(***************************************************************************)
(* The disk the recorder scans.  A path of it is a directory, a regular    *)
(* file or a special file (a socket, a fifo), with the bytes of a file;    *)
(* os.stat of it, reading it and listing it succeed or fail.               *)
(***************************************************************************)
\* os.listdir: the names in each directory, in the order the walk gets them
Listing == ("/x" :> <<"a.txt", "App.CONF", "sub">>) @@ ("/x/sub" :> <<"c.txt">>)
           @@ ("/etc" :> <<"app.conf", "passwd">>)

\* os.path.join(root, name)
os_path_join(root, name) == root \o "/" \o name

DirEntry(stat_ok, listable) ==
    [kind |-> "dir", stat_ok |-> stat_ok, listable |-> listable]
FileEntry(data, stat_ok, readable) ==
    [kind |-> "file", data |-> data, stat_ok |-> stat_ok, readable |-> readable]
SpecialEntry(stat_ok) == [kind |-> "special", stat_ok |-> stat_ok]

\* os.path.exists on the scanned disk
disk_exists(disk, path) == path \in DOMAIN disk

\* hashlib.sha256 of the bytes, as a string: equal for equal bytes only
sha256_hexdigest(data) == "sha256:" \o ToString(data)

\* _get_file_metadata: {} when os.stat raises (uid, gid, mode and the times
\* are left out)
_get_file_metadata(disk, filepath) ==
    IF ~disk[filepath].stat_ok THEN EmptyDict
    ELSE [size |-> IF disk[filepath].kind = "file" THEN Len(disk[filepath].data) ELSE 0,
          is_symlink |-> FALSE,
          is_directory |-> disk[filepath].kind = "dir",
          is_file |-> disk[filepath].kind = "file"]

\* _calculate_hash: the digest, or "" and an error in the manifest when the
\* file cannot be read
_calculate_hash(manifest, disk, filepath) ==
    IF disk[filepath].readable
    THEN [manifest |-> manifest, value |-> sha256_hexdigest(disk[filepath].data)]
    ELSE [manifest |-> [manifest EXCEPT !.errors =
                           Append(@, "Hash calculation failed for " \o filepath)],
          value |-> ""]

\* the manifest of a new recorder
new_manifest(config_path, mode) ==
    [metadata |-> [version |-> "2.0", config_file |-> config_path, mode |-> mode],
     files |-> EmptyDict,
     directories |-> EmptyDict,
     errors |-> <<>>]

\* the body of "for file in files" for one file
scan_file(manifest, r, filepath) ==
    IF ~_should_include_path(r.mode, r.config, filepath) THEN manifest
    ELSE LET metadata == _get_file_metadata(r.disk, filepath)
         IN IF metadata = EmptyDict THEN manifest
            ELSE LET h == IF metadata.is_file
                          THEN _calculate_hash(manifest, r.disk, filepath)
                          ELSE [manifest |-> manifest, value |-> ""]
                     file_info ==
                         [path |-> filepath,
                          metadata |-> metadata,
                          hash |-> h.value,
                          archived |->
                              /\ metadata.is_file
                              /\ _should_archive_file(r.mode, r.config, filepath,
                                                      metadata.size)]
                 IN [h.manifest EXCEPT !.files = DictSet(@, filepath, file_info)]

\* scan_files with "break" for "continue" when a file has no metadata
RECURSIVE scan_files_break(_, _, _, _)
scan_files_break(manifest, r, root, files) ==
    IF files = <<>> THEN manifest
    ELSE IF /\ _should_include_path(r.mode, r.config, os_path_join(root, Head(files)))
            /\ _get_file_metadata(r.disk, os_path_join(root, Head(files))) = EmptyDict
    THEN manifest
    ELSE scan_files_break(scan_file(manifest, r, os_path_join(root, Head(files))),
                          r, root, Tail(files))

RECURSIVE scan_files(_, _, _, _)
scan_files(manifest, r, root, files) ==
    IF files = <<>> THEN manifest
    ELSE scan_files(scan_file(manifest, r, os_path_join(root, Head(files))),
                    r, root, Tail(files))

\* the body of "for directory in dirs" for one directory
scan_dir(manifest, r, dirpath) ==
    LET metadata == _get_file_metadata(r.disk, dirpath)
    IN IF metadata = EmptyDict THEN manifest
       ELSE [manifest EXCEPT !.directories =
                DictSet(@, dirpath, [path |-> dirpath, metadata |-> metadata])]

RECURSIVE scan_dirs(_, _, _, _)
scan_dirs(manifest, r, root, dirs) ==
    IF dirs = <<>> THEN manifest
    ELSE scan_dirs(scan_dir(manifest, r, os_path_join(root, Head(dirs))),
                   r, root, Tail(dirs))

\* os_walk with "dirs = [...]" for "dirs[:] = [...]": the walk keeps its own
\* list and descends into every directory
RECURSIVE os_walk_unpruned(_, _, _)
os_walk_unpruned(manifest, r, top) ==
    IF ~r.disk[top].listable THEN manifest
    ELSE LET names == IF top \in DOMAIN Listing THEN Listing[top] ELSE <<>>
             IsDir(n) == r.disk[os_path_join(top, n)].kind = "dir"
             IsFile(n) == ~IsDir(n)
             Kept(n) == _should_include_path(r.mode, r.config, os_path_join(top, n))
             dirs == SelectSeq(SelectSeq(names, IsDir), Kept)
             scanned == scan_dirs(scan_files(manifest, r, top, SelectSeq(names, IsFile)),
                                  r, top, dirs)
             below[k \in 0..Len(SelectSeq(names, IsDir))] ==
                 IF k = 0 THEN scanned
                 ELSE os_walk_unpruned(below[k - 1], r,
                                       os_path_join(top, SelectSeq(names, IsDir)[k]))
         IN below[Len(SelectSeq(names, IsDir))]

\* the loop "for root, dirs, files in os.walk(root_path)" from the directory
\* top down: os.walk yields nothing for a directory it cannot list, and
\* descends into the directories the body left in dirs
RECURSIVE os_walk(_, _, _)
os_walk(manifest, r, top) ==
    IF ~r.disk[top].listable THEN manifest
    ELSE LET names == IF top \in DOMAIN Listing THEN Listing[top] ELSE <<>>
             IsDir(n) == r.disk[os_path_join(top, n)].kind = "dir"
             IsFile(n) == ~IsDir(n)
             Kept(n) == _should_include_path(r.mode, r.config, os_path_join(top, n))
             dirs == SelectSeq(SelectSeq(names, IsDir), Kept)
             scanned == scan_dirs(scan_files(manifest, r, top, SelectSeq(names, IsFile)),
                                  r, top, dirs)
             below[k \in 0..Len(dirs)] ==
                 IF k = 0 THEN scanned
                 ELSE os_walk(below[k - 1], r, os_path_join(top, dirs[k]))
         IN below[Len(dirs)]

_scan_directory(manifest, r, root_path) == os_walk(manifest, r, root_path)

\* the errors _create_project_archive appends for the files tar.add fails on
RECURSIVE archive_errors(_)
archive_errors(failed) ==
    IF failed = {} THEN <<>>
    ELSE LET filepath == CHOOSE f \in failed : TRUE
         IN <<"Archive failed for " \o filepath>> \o archive_errors(failed \ {filepath})

\* _create_project_archive: manifest.json is written and added first, then
\* every file the manifest flags is added under "archived_files" + its path,
\* unless it is gone (skipped) or tar.add raises (an error is appended to the
\* manifest in memory).  Answers the archive and that manifest.
_create_project_archive(manifest, disk) ==
    LET archived == {filepath \in DOMAIN manifest.files :
                        /\ manifest.files[filepath].archived
                        /\ disk_exists(disk, filepath)}
        added == {filepath \in archived : disk[filepath].readable}
        names == {"manifest.json"} \cup {"archived_files" \o filepath : filepath \in added}
        path_of(name) == CHOOSE filepath \in added : "archived_files" \o filepath = name
    IN [archive |-> Tar([name \in names |->
                            IF name = "manifest.json" THEN JsonMember(manifest)
                            ELSE FileMember(disk[path_of(name)].data)]),
        manifest |-> [manifest EXCEPT !.errors = @ \o archive_errors(archived \ added)]]

(***************************************************************************)
(* SpecRecord: record_system on a disk, of either mode and a range of      *)
(* configurations, sizes and failures; the archive is then uploaded to the *)
(* analyzer and its files are read back.                                   *)
(***************************************************************************)
\* n bytes
Bytes(n) == [i \in 1..n |-> 97]

\* the disks: /x holds a.txt, App.CONF (a file, or a socket) and sub, which
\* holds c.txt; stat fails for the paths of nostat, reading for those of
\* noread, listing for those of nolist
Disk(size, special, nostat, noread, nolist) ==
    ("/x" :> DirEntry("/x" \notin nostat, "/x" \notin nolist))
    @@ ("/x/a.txt" :> FileEntry(Bytes(size), "/x/a.txt" \notin nostat,
                                "/x/a.txt" \notin noread))
    @@ ("/x/App.CONF" :>
            IF special THEN SpecialEntry("/x/App.CONF" \notin nostat)
            ELSE FileEntry(<<255>>, "/x/App.CONF" \notin nostat,
                           "/x/App.CONF" \notin noread))
    @@ ("/x/sub" :> DirEntry("/x/sub" \notin nostat, "/x/sub" \notin nolist))
    @@ ("/x/sub/c.txt" :> FileEntry(Bytes(1), "/x/sub/c.txt" \notin nostat,
                                    "/x/sub/c.txt" \notin noread))

DiskFiles == {"/x/a.txt", "/x/App.CONF", "/x/sub/c.txt"}
DiskDirs == {"/x", "/x/sub"}

\* the failures: none, one path, or every path
StatFailures == {{}, {"/x/a.txt"}, {"/x/sub"}, DiskFiles \cup DiskDirs}
ReadFailures == {{}, {"/x/a.txt"}, DiskFiles}
ListFailures == {{}, {"/x/sub"}}

\* paths.scan: /y does not exist
ScanLists == {<<"/x">>, <<"/y", "/x">>, <<"/x", "/x/sub">>}
IncludeLists == {<<>>, <<"*.txt">>, <<"*.txt", "sub">>}
ExcludeLists == {<<>>, <<"sub">>, <<"App.CONF">>}

RecordConfigs ==
    {[paths |-> [scan |-> scan, include |-> inc, exclude |-> exc], archive |-> arch] :
        scan \in ScanLists, inc \in IncludeLists, exc \in ExcludeLists,
        arch \in ArchiveSections}

InitRecord ==
    \E mode \in Modes, config \in RecordConfigs, size \in 0..MaxSize,
       special \in BOOLEAN, nostat \in StatFailures, noread \in ReadFailures,
       nolist \in ListFailures :
        /\ rec = [mode |-> mode,
                  config |-> config,
                  disk |-> Disk(size, special, nostat, noread, nolist),
                  manifest |-> new_manifest("config.yaml", mode),
                  step |-> "scan",
                  i |-> 1]
        /\ fs = [path \in TarPaths |-> NoFile]
        /\ projects = EmptyDict
        /\ cache = NoCacheFile
        /\ now = 1
        /\ last = NoCall
        /\ sweep = NoSweep
        /\ lock = NoLock
        /\ pc = [t \in Threads |-> "idle"]
        /\ loc = [t \in Threads |-> EmptyDict]

\* record_system: one turn of "for path in scan_paths"
ScanRoot ==
    LET scan_paths == Get(Get(rec.config, "paths", EmptyDict), "scan", <<"/">>)
        path == scan_paths[rec.i]
    IN /\ rec.step = "scan"
       /\ rec' = [rec EXCEPT
                    !.manifest = IF disk_exists(rec.disk, path)
                                 THEN _scan_directory(@, rec, path)
                                 ELSE @,
                    !.i = @ + 1,
                    !.step = IF rec.i = Len(scan_paths) THEN "pack" ELSE "scan"]
       /\ UNCHANGED <<fs, projects, cache, now, last, sweep, lock, pc, loc>>

\* a file of the disk is removed between the scan and the packing
Vanish(filepath) ==
    /\ rec.step = "pack"
    /\ filepath \in DOMAIN rec.disk
    /\ rec' = [rec EXCEPT !.disk = [p \in DOMAIN rec.disk \ {filepath} |-> rec.disk[p]]]
    /\ UNCHANGED <<fs, projects, cache, now, last, sweep, lock, pc, loc>>

\* record_system: _create_project_archive, and the return
CreateArchive ==
    LET r == _create_project_archive(rec.manifest, rec.disk)
    IN /\ rec.step = "pack"
       /\ rec' = ("archive" :> r.archive)
                 @@ [rec EXCEPT !.manifest = r.manifest, !.step = "done"]
       /\ UNCHANGED <<fs, projects, cache, now, last, sweep, lock, pc, loc>>

\* the archive is uploaded to the analyzer as project p1
UploadRecorded ==
    LET filepath == upload_filepath("p1", "a.tar.gz")
        saved == [fs EXCEPT ![filepath] = rec.archive]
        r == load_project(projects, cache, saved, now, "p1", filepath, FALSE)
    IN /\ rec.step = "done"
       /\ fs' = saved
       /\ projects' = r.projects
       /\ cache' = r.cache
       /\ now' = Tick(r.exc = "")
       /\ last' = ("had" :> FALSE)
                  @@ Call("upload_project", "load_project", <<"p1", filepath>>,
                          r.exc, status_400_500(r.exc), response_body(r))
       /\ rec' = [rec EXCEPT !.step = "loaded"]
       /\ UNCHANGED <<sweep, lock, pc, loc>>

\* analyzer._extract_file_content(project, file_path) on the loaded project
ExtractContent(file_path) ==
    /\ rec.step = "loaded"
    /\ "p1" \in DOMAIN projects
    /\ last' = Call("none", "_extract_file_content", <<"p1", file_path>>, "", 0,
                    _extract_file_content(fs, projects["p1"], file_path))
    /\ UNCHANGED <<fs, projects, cache, now, sweep, lock, pc, loc, rec>>

NextRecord ==
    \/ ScanRoot
    \/ Vanish("/x/a.txt")
    \/ CreateArchive
    \/ UploadRecorded
    \/ \E file_path \in DiskFiles : ExtractContent(file_path)

SpecRecord == InitRecord /\ [][NextRecord]_vars

(***************************************************************************)
(* SpecMode2: record_system in Mode 2 with a configuration that            *)
(* generate_mode2_config synthesized from two manifests of the files of    *)
(* /etc, on a disk that holds those files.                                 *)
(***************************************************************************)
\* /etc holds app.conf and passwd
EtcDisk(size) ==
    ("/etc" :> DirEntry(TRUE, TRUE))
    @@ ("/etc/app.conf" :> FileEntry(Bytes(size), TRUE, TRUE))
    @@ ("/etc/passwd" :> FileEntry(Bytes(1), TRUE, TRUE))

EtcFiles == {"/etc/app.conf", "/etc/passwd"}

\* the pairs of manifests of the files of /etc: each file stays as it is, is
\* modified, appears, disappears, or is in neither manifest
EtcPairs ==
    {<<ConfigManifest([p \in {q \in EtcFiles :
                                 change[q] \in {"same", "modified", "deleted"}}
                          |-> "h1"]),
       ConfigManifest([p \in {q \in EtcFiles :
                                 change[q] \in {"same", "modified", "new"}}
                          |-> IF change[p] = "same" THEN "h1" ELSE "h2"])>> :
        change \in [EtcFiles -> {"same", "modified", "new", "deleted", "absent"}]}

InitMode2 ==
    \E pair \in EtcPairs, seed \in 0..MaxSeed, size \in 0..MaxSize :
        LET config == mode2_config_of([manifest |-> pair[1]], [manifest |-> pair[2]],
                                      "p1", "p2", 1, seed)
        IN /\ rec = [mode |-> 2,
                     config |-> config,
                     disk |-> EtcDisk(size),
                     manifest |-> new_manifest("mode2_config.yaml", 2),
                     step |-> IF config.paths.scan = <<>> THEN "pack" ELSE "scan",
                     i |-> 1]
           /\ fs = [path \in TarPaths |-> NoFile]
           /\ projects = EmptyDict
           /\ cache = NoCacheFile
           /\ now = 2
           /\ last = NoCall
           /\ sweep = NoSweep
           /\ lock = NoLock
           /\ pc = [t \in Threads |-> "idle"]
           /\ loc = [t \in Threads |-> EmptyDict]

NextMode2 ==
    \/ ScanRoot
    \/ \E filepath \in EtcFiles : Vanish(filepath)
    \/ CreateArchive

SpecMode2 == InitMode2 /\ [][NextMode2]_vars

(***************************************************************************)
(* Claims about the diff engine (SpecDiff).                                *)
(***************************************************************************)
\* the last call is a comparison that returned a result
Compared == last.op = "compare_projects" /\ last.exc = ""

\* the file maps of the two projects the last comparison was given
Files1 == Get(projects[last.args[1]].manifest, "files", EmptyDict)
Files2 == Get(projects[last.args[2]].manifest, "files", EmptyDict)
Dirs1 == Get(projects[last.args[1]].manifest, "directories", EmptyDict)
Dirs2 == Get(projects[last.args[2]].manifest, "directories", EmptyDict)

\* the paths of a list of changes, in order
PathsOf(list) == [i \in 1..Len(list) |-> list[i].path]

\* the paths of the four lists, one after the other
Listed(changes) ==
    PathsOf(changes.new_files) \o PathsOf(changes.deleted_files)
    \o PathsOf(changes.modified_files) \o PathsOf(changes.unchanged_files)

Occurrences(seq, x) == Cardinality({i \in 1..Len(seq) : seq[i] = x})

InList(list, path) == \E i \in 1..Len(list) : list[i].path = path

HashOf(entry) == IF "hash" \in DOMAIN entry THEN entry.hash ELSE NoneHash

\* C1: after compare_projects(A, B) every path of keys(A.files) | keys(B.files)
\* is in exactly one of the four lists, exactly once, and no other path is in
\* any list.
C1_Partition ==
    Compared =>
        LET listed == Listed(last.body.changes)
            union == DOMAIN Files1 \cup DOMAIN Files2
        IN /\ \A path \in union : Occurrences(listed, path) = 1
           /\ \A i \in 1..Len(listed) : listed[i] \in union

\* C1 witness: a comparison of two manifests that share a path and differ in
\* another, so that two lists are filled.
C1_Witness ==
    /\ Compared
    /\ DOMAIN Files1 \cap DOMAIN Files2 # {}
    /\ DOMAIN Files1 # DOMAIN Files2
    /\ Len(Listed(last.body.changes)) = NumFilePaths

\* C2: compare_projects(A, B) lists a path as unchanged iff it is in both file
\* maps with equal hashes, as modified (with A's entry as before and B's as
\* after) iff it is in both with different hashes, as deleted iff it is only in
\* A, as new iff it is only in B; a path that is only a directory of A or B is
\* in no list; the statistics are the lengths of the lists and the sizes of the
\* file maps.
C2_Classification ==
    Compared =>
        LET ch == last.body.changes
            st == last.body.statistics
        IN /\ \A path \in FilePaths :
                LET in1 == path \in DOMAIN Files1
                    in2 == path \in DOMAIN Files2
                IN /\ InList(ch.unchanged_files, path) <=>
                        (in1 /\ in2 /\ HashOf(Files1[path]) = HashOf(Files2[path]))
                   /\ InList(ch.modified_files, path) <=>
                        (in1 /\ in2 /\ HashOf(Files1[path]) # HashOf(Files2[path]))
                   /\ InList(ch.deleted_files, path) <=> (in1 /\ ~in2)
                   /\ InList(ch.new_files, path) <=> (~in1 /\ in2)
           /\ \A i \in 1..Len(ch.modified_files) :
                /\ ch.modified_files[i].before = Files1[ch.modified_files[i].path]
                /\ ch.modified_files[i].after = Files2[ch.modified_files[i].path]
           /\ \A path \in (DOMAIN Dirs1 \cup DOMAIN Dirs2)
                            \ (DOMAIN Files1 \cup DOMAIN Files2) :
                \A i \in 1..Len(Listed(ch)) : Listed(ch)[i] # path
           /\ st.new_files = Len(ch.new_files)
           /\ st.deleted_files = Len(ch.deleted_files)
           /\ st.modified_files = Len(ch.modified_files)
           /\ st.unchanged_files = Len(ch.unchanged_files)
           /\ st.total_files_before = Cardinality(DOMAIN Files1)
           /\ st.total_files_after = Cardinality(DOMAIN Files2)

\* C2 witness: a comparison with a modified file, and a path that is a
\* directory on one side and in neither file map.
C2_Witness ==
    /\ Compared
    /\ Len(last.body.changes.modified_files) = 1
    /\ (DOMAIN Dirs1 \cup DOMAIN Dirs2) \ (DOMAIN Files1 \cup DOMAIN Files2) # {}

\* C3: comparing a project with itself gives empty new, deleted and modified
\* lists and as many unchanged files as its manifest has files.
C3_SelfCompare ==
    (Compared /\ last.args[1] = last.args[2]) =>
        LET ch == last.body.changes
        IN /\ ch.new_files = <<>>
           /\ ch.deleted_files = <<>>
           /\ ch.modified_files = <<>>
           /\ Len(ch.unchanged_files) = Cardinality(DOMAIN Files1)
           /\ last.body.statistics.unchanged_files = Cardinality(DOMAIN Files1)

\* C3 witness: a project whose manifest has every path as a file, one of them
\* without a hash, compared with itself.
C3_Witness ==
    /\ Compared
    /\ last.args[1] = last.args[2]
    /\ DOMAIN Files1 = FilePaths
    /\ \E path \in FilePaths : "hash" \notin DOMAIN Files1[path]


(***************************************************************************)
(* Claims about the routes that read the store (SpecQuery).                *)
(***************************************************************************)
\* the number of project ids among the arguments of a reading call
IdArgs(call) == IF call.op = "get_project_summary" THEN 1 ELSE 2

\* C4: get_project_summary, compare_projects, get_file_diff and
\* generate_mode2_config given a project id that is not in the store raise the
\* not-found error (ValueError), return no result and leave the map, the cache
\* file and the archives as they were; the route answers 404 with an error
\* body.
C4_NotFound ==
    [][(/\ last'.op \in {"get_project_summary", "compare_projects",
                         "get_file_diff", "generate_mode2_config"}
        /\ \E i \in 1..IdArgs(last') : last'.args[i] \notin DOMAIN projects)
       => /\ last'.exc = "ValueError"
          /\ last'.status = 404
          /\ DOMAIN last'.body = {"error"}
          /\ projects' = projects
          /\ cache' = cache
          /\ fs' = fs]_vars

\* C4 witness: a file diff asked for a loaded and an unknown project,
\* answered 404.
C4_Witness ==
    /\ last.op = "get_file_diff"
    /\ last.args[1] \in DOMAIN projects
    /\ last.args[2] \notin DOMAIN projects
    /\ last.status = 404

\* the last call is a file diff that raised nothing
Diffed == last.op = "get_file_diff" /\ last.exc = ""

\* the archive now at the tar path of the i-th project of the last file diff
DiffArchive(i) == fs[projects[last.args[i]].tar_path]

\* that archive opens and has the member "archived_files" + file_path
HasMember(i) ==
    /\ DiffArchive(i).kind = "tar"
    /\ ("archived_files" \o last.args[3].file_path) \in DOMAIN DiffArchive(i).members

\* the member is a file, so it has content
HasContent(i) ==
    /\ HasMember(i)
    /\ DiffArchive(i).members["archived_files" \o last.args[3].file_path].type = "file"

\* C5: get_file_diff(p1, p2, path) on two loaded projects returns the
\* not-found result, raising nothing, when "archived_files" + path is a member
\* of neither archive; it tags the result added when only the second archive
\* has the content (diffed against no lines), deleted when only the first has
\* it, modified when both have it.
C5_FileDiff ==
    Diffed =>
        /\ (~HasMember(1) /\ ~HasMember(2)) =>
               (last.status = 200 /\ DOMAIN last.body = {"error"})
        /\ (~HasContent(1) /\ HasContent(2)) =>
               /\ DOMAIN last.body # {"error"}
               /\ last.body.diff_type = "added"
               /\ last.body.diff_html.fromlines = <<>>
        /\ (HasContent(1) /\ ~HasContent(2)) =>
               /\ DOMAIN last.body # {"error"}
               /\ last.body.diff_type = "deleted"
               /\ last.body.diff_html.tolines = <<>>
        /\ (HasContent(1) /\ HasContent(2)) =>
               /\ DOMAIN last.body # {"error"}
               /\ last.body.diff_type = "modified"

\* C5 witness: a file that is empty in the second archive and not in the
\* first, tagged added.
C5_Witness ==
    /\ Diffed
    /\ ~HasMember(1)
    /\ HasContent(2)
    /\ last.body.diff_type = "added"
    /\ last.body.content2_size = 0

(***************************************************************************)
(* Claims about the store (Spec).                                          *)
(***************************************************************************)
\* C6: the map holds one project per identifier, the one stored under it; a
\* successful load of an id stores the manifest of the archive, the archive
\* path and the time of the load under that id, replacing what was there, and
\* leaves every other entry as it was.
C6_LoadReplaces ==
    [][/\ \A id \in DOMAIN projects' : projects'[id].id = id
       /\ (last'.op = "load_project" /\ last'.exc = "") =>
             LET id == last'.args[1]
                 tar_path == last'.args[2]
             IN /\ DOMAIN projects' = DOMAIN projects \cup {id}
                /\ projects'[id].tar_path = tar_path
                /\ projects'[id].manifest = fs'[tar_path].members["manifest.json"].json
                /\ projects'[id].loaded_at = now
                /\ id \in DOMAIN projects =>
                       projects'[id].loaded_at > projects[id].loaded_at
                /\ \A other \in DOMAIN projects \ {id} :
                       projects'[other] = projects[other]]_vars

\* C6 witness: a load under an id that was in the map, from another archive
\* path than the id's own, with a second project in the map.
C6_Witness ==
    /\ last.op = "load_project"
    /\ last.exc = ""
    /\ last.had
    /\ last.args[2] # upload_filepath(last.args[1], "a.tar.gz")
    /\ Cardinality(DOMAIN projects) = 2

\* C8: after a successful load and after a removal of a project by
\* delete_project, cleanup_project or cleanup_stale_projects the cache file
\* lists exactly the ids of the map, each with the tar path and the load time
\* of its project.
C8_IndexInSync ==
    (\/ last.op = "load_project" /\ last.exc = ""
     \/ /\ last.op \in {"delete_project", "cleanup_project", "cleanup_stale_projects"}
        /\ last.body.removed # {})
    => /\ cache.exists
       /\ cache.data = [id \in DOMAIN projects |->
                           [tar_path |-> projects[id].tar_path,
                            loaded_at |-> projects[id].loaded_at]]

\* the archive at path can be loaded: a tar with a manifest.json member
Loadable(path) ==
    /\ fs[path].kind = "tar"
    /\ "manifest.json" \in DOMAIN fs[path].members

\* C9: after the construction of the store over a cache file, every listed
\* project whose archive loads is in the map under its id, with the listed
\* path and the archive's manifest; a listed project whose archive is missing
\* or does not load is not in the map; nothing else is; no exception escapes.
C9_Restore ==
    last.op = "__init__" =>
        /\ last.exc = ""
        /\ IF cache.exists
           THEN /\ DOMAIN projects \subseteq DOMAIN cache.data
                /\ \A id \in DOMAIN cache.data :
                      LET tar_path == cache.data[id].tar_path
                      IN IF Loadable(tar_path)
                         THEN /\ id \in DOMAIN projects
                              /\ projects[id].id = id
                              /\ projects[id].tar_path = tar_path
                              /\ projects[id].manifest
                                     = fs[tar_path].members["manifest.json"].json
                         ELSE id \notin DOMAIN projects
           ELSE projects = EmptyDict

\* C9 witness: a construction that restored one listed project and skipped
\* another whose archive is on disk and does not load.
C9_Witness ==
    /\ last.op = "__init__"
    /\ cache.exists
    /\ \E id1 \in DOMAIN cache.data, id2 \in DOMAIN cache.data :
          /\ id1 \in DOMAIN projects
          /\ id2 \notin DOMAIN projects
          /\ exists(fs, cache.data[id2].tar_path)

\* C10: cleanup_stale_projects removes from the map and the cache file every
\* project whose archive is missing and leaves every other project as it was;
\* list_projects builds its listing after such a sweep, and lists the projects
\* of the map, none of which the sweep found its archive missing for.
C10_Sweep ==
    [][/\ last'.op = "cleanup_stale_projects" =>
             /\ DOMAIN projects' \subseteq DOMAIN projects
             /\ \A id \in DOMAIN projects :
                   IF exists(fs, projects[id].tar_path)
                   THEN id \in DOMAIN projects' /\ projects'[id] = projects[id]
                   ELSE /\ id \notin DOMAIN projects'
                        /\ cache'.exists
                        /\ id \notin DOMAIN cache'.data
       /\ last'.op = "list_projects" =>
             /\ sweep.pending
             /\ last'.status = 200
             /\ {last'.body.projects[i].id : i \in 1..Len(last'.body.projects)}
                    = DOMAIN projects'
             /\ \A i \in 1..Len(last'.body.projects) :
                   <<last'.body.projects[i].id, last'.body.projects[i].loaded_at>>
                       \notin sweep.stale]_vars

\* C10 witness: a listing that holds a project, after a sweep that removed
\* another whose archive was missing.
C10_Witness ==
    /\ last.op = "list_projects"
    /\ last.args[1] # {}
    /\ Len(last.body.projects) = 1


\* the archive of the last load's path is not a tar container
NotATar(call, filesys) == filesys[call.args[2]].kind \in {"garbage", "empty"}

\* the archive of the last load's path is a tar without a manifest.json member
NoManifest(call, filesys) ==
    /\ filesys[call.args[2]].kind = "tar"
    /\ "manifest.json" \notin DOMAIN filesys[call.args[2]].members

\* C11: a load of an archive that does not open as a tar container, or that
\* has no manifest.json member, raises an error to the caller (ValueError; the
\* upload route answers 400 with an error body) and leaves the map, the entry
\* of the same id included, and the cache file as they were.
C11_FailedLoad ==
    [][(/\ last'.op = "load_project"
        /\ NotATar(last', fs') \/ NoManifest(last', fs'))
       => /\ last'.exc = "ValueError"
          /\ DOMAIN last'.body = {"error"}
          /\ last'.route = "upload_project" => last'.status = 400
          /\ projects' = projects
          /\ cache' = cache]_vars

\* C11 witness: an upload without manifest.json under an id that is loaded,
\* answered 400 with the id's project still in the map.
C11_Witness ==
    /\ last.op = "load_project"
    /\ last.route = "upload_project"
    /\ NoManifest(last, fs)
    /\ last.status = 400
    /\ last.had
    /\ last.args[1] \in DOMAIN projects

(***************************************************************************)
(* Claims about concurrent calls (SpecConc).                               *)
(***************************************************************************)
\* the id a thread is about to look up or remove
Target(t) ==
    IF pc[t] = "remove" THEN loc[t].args[1] ELSE loc[t].args[loc[t].i]

\* C7: under any interleaving of concurrent calls, no operation that found
\* its ids in the map at its membership check finds one absent at its
\* following lookup or removal.
C7_NoCheckThenLookupRace ==
    \A t \in Threads :
        pc[t] \in {"lookup", "remove"} => Target(t) \in DOMAIN projects


(***************************************************************************)
(* Claims about the recorder's path filter (SpecFilter).                   *)
(***************************************************************************)
\* the include and the exclude patterns the configuration holds
Included == IF "include" \in DOMAIN rec.config.paths
            THEN rec.config.paths.include ELSE <<>>
Excluded == IF "exclude" \in DOMAIN rec.config.paths
            THEN rec.config.paths.exclude ELSE <<>>

\* the path matches one of the patterns
Matches(path, patterns) ==
    \E i \in 1..Len(patterns) : path_match(path, patterns[i])

\* C13: _should_include_path(path) is true in Mode 1 exactly when the path
\* matches no exclude pattern, whatever the include patterns are; in Mode 2
\* exactly when (no include pattern is configured or the path matches one)
\* and the path matches no exclude pattern.
C13_PathFilter ==
    last.op = "_should_include_path" =>
        LET path == last.args[1]
        IN /\ rec.mode = 1 =>
                (last.body.result <=> ~Matches(path, Excluded))
           /\ rec.mode = 2 =>
                (last.body.result <=>
                    /\ Included = <<>> \/ Matches(path, Included)
                    /\ ~Matches(path, Excluded))

\* C13 witness: Mode 1 includes a path that matches none of the configured
\* include patterns.
C13_Witness ==
    /\ last.op = "_should_include_path"
    /\ rec.mode = 1
    /\ Included # <<>>
    /\ ~Matches(last.args[1], Included)
    /\ last.body.result

\* the last call asked _should_archive_file about a path that matches an
\* archive pattern, of a recorder whose configuration sets max_file_size and
\* patterns
ArchiveAsked ==
    /\ last.op = "_should_archive_file"
    /\ DOMAIN rec.config.archive = {"max_file_size", "patterns"}
    /\ Matches(last.args[1], rec.config.archive.patterns)

ScanDone == rec.step = "pack" /\ DiskFiles \subseteq DOMAIN rec.disk

\* the archive is written
Packed == rec.step \in {"done", "loaded"}

\* the Path Filter of the recorder's mode, in the words of C13
Passes(path) ==
    IF rec.mode = 1 THEN ~Matches(path, Excluded)
    ELSE /\ Included = <<>> \/ Matches(path, Included)
         /\ ~Matches(path, Excluded)

\* archive.patterns and archive.max_file_size, with their defaults
ArchivePatterns == IF "patterns" \in DOMAIN rec.config.archive
                   THEN rec.config.archive.patterns ELSE <<"*">>
MaxFileSize == IF "max_file_size" \in DOMAIN rec.config.archive
               THEN rec.config.archive.max_file_size ELSE DEFAULT_MAX_FILE_SIZE

\* path lies strictly under the directory dir
IsUnder(path, dir) ==
    /\ Len(Chars(path)) > Len(Chars(dir)) + 1
    /\ SubSeq(Chars(path), 1, Len(Chars(dir))) = Chars(dir)
    /\ Chars(path)[Len(Chars(dir)) + 1] = "/"

\* the scan roots that exist
Roots == {rec.config.paths.scan[i] : i \in 1..Len(rec.config.paths.scan)}
             \cap DOMAIN rec.disk

\* the walk of root gets to path: every directory from root down to the
\* parent of path can be listed, and those below root pass the Path Filter
ReachedFrom(root, path) ==
    /\ IsUnder(path, root)
    /\ rec.disk[root].listable
    /\ \A d \in DiskDirs :
          (IsUnder(d, root) /\ IsUnder(path, d)) =>
              (Passes(d) /\ rec.disk[d].listable)

Reached(path) == \E root \in Roots : ReachedFrom(root, path)

\* the regular files of the disk
RegularFiles == {f \in DiskFiles : rec.disk[f].kind = "file"}

C14_Original ==
    (ScanDone /\ rec.mode = 2) =>
        /\ \A f \in DiskFiles :
              (Included # <<>> /\ ~Matches(f, Included)) =>
                  f \notin DOMAIN rec.manifest.files
        /\ \A f \in RegularFiles :
              (Passes(f) /\ Matches(f, ArchivePatterns)) =>
                  /\ Len(rec.disk[f].data) > MaxFileSize =>
                        /\ f \in DOMAIN rec.manifest.files
                        /\ ~rec.manifest.files[f].archived
                  /\ Len(rec.disk[f].data) = MaxFileSize =>
                        /\ f \in DOMAIN rec.manifest.files
                        /\ rec.manifest.files[f].archived

\* C14 amended: in a Mode 2 scan a file that fails the include gate has no
\* entry; a regular file that the walk of a scan root reaches, whose stat
\* succeeds, that passes the Path Filter and matches an archive pattern has an
\* entry, with archived = false when its size is greater than max_file_size
\* and archived = true when its size is max_file_size.
C14_SizeGate ==
    (ScanDone /\ rec.mode = 2) =>
        /\ \A f \in DiskFiles :
              (Included # <<>> /\ ~Matches(f, Included)) =>
                  f \notin DOMAIN rec.manifest.files
        /\ \A f \in RegularFiles :
              (/\ Reached(f)
               /\ rec.disk[f].stat_ok
               /\ Passes(f)
               /\ Matches(f, ArchivePatterns)) =>
                  /\ Len(rec.disk[f].data) > MaxFileSize =>
                        /\ f \in DOMAIN rec.manifest.files
                        /\ ~rec.manifest.files[f].archived
                  /\ Len(rec.disk[f].data) = MaxFileSize =>
                        /\ f \in DOMAIN rec.manifest.files
                        /\ rec.manifest.files[f].archived

\* C14 witness: a Mode 2 manifest with a file over the size limit that is not
\* flagged and a file at the size limit that is.
C14_Witness ==
    /\ ScanDone
    /\ rec.mode = 2
    /\ \E f \in DOMAIN rec.manifest.files, g \in DOMAIN rec.manifest.files :
          /\ Matches(f, ArchivePatterns)
          /\ rec.manifest.files[f].metadata.size > MaxFileSize
          /\ ~rec.manifest.files[f].archived
          /\ rec.manifest.files[g].metadata.size = MaxFileSize
          /\ rec.manifest.files[g].archived

\* the paths of the manifest: its files and its directories
ManifestPaths == DOMAIN rec.manifest.files \cup DOMAIN rec.manifest.directories

\* the directories below a scan root that fail the Path Filter
PrunedDirs == {d \in DiskDirs : (\E root \in Roots : IsUnder(d, root)) /\ ~Passes(d)}

\* C15 as claimed: when a directory D below a scan root fails the Path
\* Filter, no file and no directory strictly under D is in the manifest.
C15_Original ==
    ScanDone =>
        \A d \in PrunedDirs : \A path \in ManifestPaths : ~IsUnder(path, d)

\* C15 amended: when a directory D below a scan root fails the Path Filter,
\* the walk of that root does not descend into D: a path strictly under D is
\* in the manifest only if a configured scan root is D or lies under D and
\* that root's walk reaches the path.
C15_Pruned ==
    ScanDone =>
        \A d \in PrunedDirs : \A path \in ManifestPaths :
            IsUnder(path, d) =>
                \E root \in Roots :
                    /\ root = d \/ IsUnder(root, d)
                    /\ ReachedFrom(root, path)

\* C15 witness: a manifest without c.txt, which passes the Path Filter and can
\* be read, because its directory failed the filter.
C15_Witness ==
    /\ ScanDone
    /\ "/x/sub" \in PrunedDirs
    /\ Passes("/x/sub/c.txt")
    /\ rec.disk["/x/sub/c.txt"].stat_ok
    /\ rec.disk["/x/sub"].listable
    /\ "/x/sub/c.txt" \notin DOMAIN rec.manifest.files
    /\ "/x/a.txt" \in DOMAIN rec.manifest.files

\* C16: for every combination of stat, read and listing failures the scan
\* goes on to its end (while it runs a scan root is left to take, and at the
\* end every scan root was taken) and leaves a manifest that holds every file and every
\* directory the walk reaches whose stat succeeds and which passes the Path
\* Filter, whatever fails on other paths; a scan root that does not exist adds
\* no error: the errors are the failed hashes of files of the manifest.
C16_ScanCompletes ==
    /\ rec.step = "scan" =>
          rec.i \in 1..Len(rec.config.paths.scan)
    /\ ScanDone =>
          /\ rec.i = Len(rec.config.paths.scan) + 1
          /\ \A f \in DiskFiles :
                (Reached(f) /\ rec.disk[f].stat_ok /\ Passes(f)) =>
                    f \in DOMAIN rec.manifest.files
          /\ \A d \in DiskDirs :
                (Reached(d) /\ rec.disk[d].stat_ok /\ Passes(d)) =>
                    d \in DOMAIN rec.manifest.directories
          /\ \A k \in 1..Len(rec.manifest.errors) :
                \E f \in DOMAIN rec.manifest.files :
                    /\ ~rec.disk[f].readable
                    /\ rec.manifest.errors[k] = "Hash calculation failed for " \o f

\* C16 witness: a scan whose first root does not exist and whose first file
\* fails at stat, with the files after it in the manifest.
C16_Witness ==
    /\ ScanDone
    /\ rec.config.paths.scan[1] \notin DOMAIN rec.disk
    /\ ~rec.disk["/x/a.txt"].stat_ok
    /\ "/x/App.CONF" \in DOMAIN rec.manifest.files
    /\ "/x/sub/c.txt" \in DOMAIN rec.manifest.files


\* the manifest the archive holds
PackedManifest == rec.archive.members["manifest.json"].json

\* C17: the archive record_system writes has the member manifest.json and,
\* for every file entry of that manifest whose archived flag is true, the
\* member "archived_files" + path, and no other member.
C17_ArchiveMembers ==
    Packed =>
        DOMAIN rec.archive.members =
            {"manifest.json"}
            \cup {"archived_files" \o f : f \in
                     {g \in DOMAIN PackedManifest.files : PackedManifest.files[g].archived}}

\* the analyzer has loaded the recorder's archive
Loaded == rec.step = "loaded" /\ "p1" \in DOMAIN projects

\* C18: the manifest the analyzer loads from the recorder's archive equals
\* the recorder's manifest, and _extract_file_content of a file the manifest
\* flags as archived returns the content the file had when it was packed.
C18_RoundTrip ==
    /\ rec.step = "loaded" => Loaded
    /\ Loaded =>
          /\ projects["p1"].manifest = rec.manifest
          /\ last.op = "_extract_file_content" =>
                LET f == last.args[2]
                IN (f \in DOMAIN rec.manifest.files /\ rec.manifest.files[f].archived)
                   => /\ ~last.body.none
                      /\ f \in DOMAIN rec.disk =>
                            last.body.text = decode(rec.disk[f].data)


\* the manifest's error list holds a string that names the path
ErrorNames(path) ==
    \E k \in 1..Len(rec.manifest.errors) :
        rec.manifest.errors[k] \in
            {"Hash calculation failed for " \o path,
             "File processing failed for " \o path,
             "Directory processing failed for " \o path,
             "Directory scan failed for " \o path}

\* C22: after a scan, every regular file the walk reached that passes the
\* Path Filter and whose hash could not be computed has an entry with an empty
\* hash and an error that names it, and every file or directory the walk
\* reached that passes the Path Filter and whose stat failed has no entry and
\* an error that names it.
C22_FailuresRecorded ==
    ScanDone =>
        /\ \A f \in RegularFiles :
              (Reached(f) /\ Passes(f) /\ rec.disk[f].stat_ok /\ ~rec.disk[f].readable)
                  => /\ f \in DOMAIN rec.manifest.files
                     /\ rec.manifest.files[f].hash = ""
                     /\ ErrorNames(f)
        /\ \A path \in DiskFiles \cup DiskDirs :
              (Reached(path) /\ Passes(path) /\ ~rec.disk[path].stat_ok)
                  => /\ path \notin ManifestPaths
                     /\ ErrorNames(path)

\* C23: after a scan, every scan root and every directory the walk reached
\* that passes the Path Filter has an entry in the manifest's directories
\* when its stat succeeds, and no directory that a walk pruned and that no
\* walk kept has one.
C23_DirectoryEntries ==
    ScanDone =>
        /\ \A d \in DiskDirs :
              ((d \in Roots \/ (Reached(d) /\ Passes(d))) /\ rec.disk[d].stat_ok)
                  => d \in DOMAIN rec.manifest.directories
        /\ \A d \in PrunedDirs :
              ~(Reached(d) /\ Passes(d)) => d \notin DOMAIN rec.manifest.directories

\* C24: in a Mode 2 scan a directory is pruned only when it matches an
\* exclude pattern: a file that passes the Path Filter and whose stat
\* succeeds is in the manifest when every directory between a scan root and
\* the file can be listed and matches no exclude pattern, whether or not those
\* directories match an include pattern.
C24_PruningByExcludeOnly ==
    (ScanDone /\ rec.mode = 2) =>
        \A f \in DiskFiles :
            ( /\ Passes(f)
              /\ rec.disk[f].stat_ok
              /\ \E root \in Roots :
                    /\ IsUnder(f, root)
                    /\ rec.disk[root].listable
                    /\ \A d \in DiskDirs :
                          (IsUnder(d, root) /\ IsUnder(f, d)) =>
                              (~Matches(d, Excluded) /\ rec.disk[d].listable) )
            => f \in DOMAIN rec.manifest.files

\* C25: the export asked with the format csv or json for a project id that
\* is not in the store answers 404 with an error body, as the compare route
\* does, and asked with another format answers 400 with an error body whether
\* or not the project ids are in the store.
C25_ExportErrors ==
    last.op = "export_comparison" =>
        /\ ( /\ last.args[3] \in {"csv", "json"}
             /\ \E i \in 1..2 : last.args[i] \notin DOMAIN projects )
           => (last.status = 404 /\ DOMAIN last.body = {"error"})
        /\ last.args[3] \notin {"csv", "json"}
           => (last.status = 400 /\ DOMAIN last.body = {"error"})

\* C29: after any sequence of uploads, loads and deletes, also uploads whose
\* load fails and uploads that use a project id and file name again, the
\* manifest kept in memory for every project is the manifest.json of the
\* archive file that is stored at the project's archive path.
C29_ManifestOfArchive ==
    \A project_id \in DOMAIN projects :
        LET tar_path == projects[project_id].tar_path
        IN exists(fs, tar_path) =>
               /\ fs[tar_path].kind = "tar"
               /\ "manifest.json" \in DOMAIN fs[tar_path].members
               /\ fs[tar_path].members["manifest.json"].json
                      = projects[project_id].manifest

\* C30: a Mode 2 scan with a synthesized configuration sets archived to true
\* on no file whose path matches a pattern of the configuration's
\* archive.exclude_from_archive, and packs no such file into the archive.
C30_ExcludedNotArchived ==
    \A filepath \in DOMAIN rec.manifest.files :
        any_match(filepath, rec.config.archive.exclude_from_archive)
        => /\ ~rec.manifest.files[filepath].archived
           /\ rec.step = "done"
              => ("archived_files" \o filepath) \notin DOMAIN rec.archive.members

(***************************************************************************)
(* SpecConfig claims.                                                      *)
(***************************************************************************)
\* the last call was generate_mode2_config and it returned a configuration
Generated(c) == c.op = "generate_mode2_config" /\ c.exc = ""

\* the files of the manifest of a project
FilesOf(project_id) == Get(projects[project_id].manifest, "files", EmptyDict)

\* the paths that one manifest has and the other has not, or that both have
\* with different hashes
Changed(project1_id, project2_id) ==
    LET f1 == FilesOf(project1_id)
        f2 == FilesOf(project2_id)
    IN {p \in DOMAIN f1 \cup DOMAIN f2 :
           \/ p \notin DOMAIN f1
           \/ p \notin DOMAIN f2
           \/ Get(f1[p], "hash", NoneHash) # Get(f2[p], "hash", NoneHash)}

\* the elements of a list
Elements(a_list) == {a_list[i] : i \in 1..Len(a_list)}

\* name is the last component of path, which is dir + "/" + name
IsNameIn(name, dir, path) ==
    /\ path = dir \o <<"/">> \o name
    /\ \A i \in 1..Len(name) : name[i] # "/"

\* pattern is "*" + ext, where the name of path is stem + ext, stem is not
\* empty and ext is a "." followed by at least one character other than "."
IsExtensionPattern(pattern, path) ==
    \E k \in 1..Len(path), n \in 2..Len(path) :
        LET name == SubSeq(path, k + 1, Len(path))
            ext == SubSeq(path, Len(path) - n + 1, Len(path))
        IN /\ IsNameIn(name, SubSeq(path, 1, k - 1), path)
           /\ n < Len(name)
           /\ ext[1] = "."
           /\ \A i \in 2..n : ext[i] # "."
           /\ pattern = <<"*">> \o ext

\* pattern is the name of path, and the name in lower case holds a marker
IsConfigName(pattern, path) ==
    /\ \E k \in 1..Len(path) : IsNameIn(pattern, SubSeq(path, 1, k - 1), path)
    /\ \E m \in {"conf", "config", "cfg", "ini", "yaml", "yml", "json"} :
           \E i \in 1..Len(pattern) :
               /\ i + Len(Chars(m)) - 1 <= Len(pattern)
               /\ \A j \in 1..Len(Chars(m)) :
                      pattern[i + j - 1] \in {Chars(m)[j]}
                          \cup {c \in DOMAIN LowerOf : LowerOf[c] = Chars(m)[j]}

\* for each file path, the strings of the model that are its parent directory
ParentDirOf ==
    [p \in DOMAIN Path |->
        {d \in DOMAIN StrChars :
            \E k \in 1..Len(Chars(p)) :
                IsNameIn(SubSeq(Chars(p), k + 1, Len(Chars(p))), Chars(d), Chars(p))}]

\* for each file path, the strings of the model that are a pattern of it
PatternsOf ==
    [p \in DOMAIN Path |->
        {s \in DOMAIN StrChars : \/ IsExtensionPattern(Chars(s), Chars(p))
                                 \/ IsConfigName(Chars(s), Chars(p))}]

ParentDirs(changed) == UNION {ParentDirOf[p] : p \in changed}
Patterns(changed) == UNION {PatternsOf[p] : p \in changed}

\* C19: the configuration generate_mode2_config returns has as scan set the
\* parent directories of the changed paths, and as include set and as
\* archive pattern set the "*<ext>" of every changed path with an extension
\* and the filename of every changed path whose lower-cased name contains a
\* configuration marker, or "*" alone when there is no such pattern; for
\* ManifestA and ManifestB the scan set is {/x} and the include set {*.txt}.
C19_SynthesizedSets ==
    Generated(last) =>
        LET changed == Changed(last.args[1], last.args[2])
            expected == IF Patterns(changed) = {} THEN {"*"} ELSE Patterns(changed)
        IN /\ Elements(last.body.paths.scan) = ParentDirs(changed)
           /\ Elements(last.body.paths.include) = expected
           /\ Elements(last.body.archive.patterns) = expected
           /\ ( /\ projects[last.args[1]].manifest = ManifestA
                /\ projects[last.args[2]].manifest = ManifestB )
              => /\ Elements(last.body.paths.scan) = {"/x"}
                 /\ Elements(last.body.paths.include) = {"*.txt"}

C19_Witness ==
    /\ Generated(last)
    /\ "/x/App.CONF" \in Changed(last.args[1], last.args[2])
    /\ "/x/.profile" \in Changed(last.args[1], last.args[2])
    /\ Elements(last.body.paths.include) = {"*.CONF", "App.CONF"}
    /\ Elements(last.body.paths.scan) = {"/x"}

\* C26: the configuration generate_mode2_config returns covers the diff: the
\* parent directory of every changed path is in the scan set, and every
\* changed path matches at least one include pattern, also when some changed
\* paths have neither an extension nor a marker and others have one.
C26_CoversDiff ==
    Generated(last) =>
        \A p \in Changed(last.args[1], last.args[2]) :
            /\ ParentDirOf[p] \cap Elements(last.body.paths.scan) # {}
            /\ any_match(p, last.body.paths.include)

\* C27: the recorder's synthesizer, run on the archives of two loaded
\* projects, and the analyzer's synthesizer, run on the two projects, return
\* the same scan set, the same include and archive pattern sets and the same
\* counts of new, deleted and modified files, also when a file entry has no
\* hash field or an empty hash.
C27_SynthesizersAgree ==
    (last.op = "SystemRecorder.generate_mode2_config" /\ last.exc = "") =>
        \A id1 \in DOMAIN projects, id2 \in DOMAIN projects :
            ( /\ projects[id1].tar_path = last.args[1]
              /\ projects[id2].tar_path = last.args[2] )
            => LET a == generate_mode2_config(projects, now, 0, id1, id2).value
               IN /\ Elements(a.paths.scan) = Elements(last.body.paths.scan)
                  /\ Elements(a.paths.include) = Elements(last.body.paths.include)
                  /\ Elements(a.archive.patterns)
                         = Elements(last.body.archive.patterns)
                  /\ a.mode2_metadata.changes_summary
                         = last.body.mode2_metadata.changes_summary

Synthesized(config) ==
    [scan |-> Elements(config.paths.scan),
     include |-> Elements(config.paths.include),
     patterns |-> Elements(config.archive.patterns),
     counts |-> config.mode2_metadata.changes_summary]

\* C20: two calls of generate_mode2_config for the same projects, made one
\* after the other at any two times and with any two iteration orders, return
\* the same scan set, the same include and archive pattern sets and the same
\* change counts; and every configuration returned, whatever the projects,
\* carries the one exclude list and the one exclude_from_archive list.
C20_Deterministic ==
    /\ [](Generated(last) =>
            /\ last.body.paths.exclude =
                   <<"*/tmp/*", "*/temp/*", "*/.git/*", "*/__pycache__/*",
                     "*.pyc", "*/cache/*", "*/logs/*.log.*">>
            /\ last.body.archive.exclude_from_archive =
                   <<"*/passwd", "*/shadow", "*/sudoers", "*/.ssh/*",
                     "*/ssl/private/*", "*/keys/*", "*/secrets/*">>)
    /\ [][(Generated(last) /\ Generated(last') /\ last'.args = last.args
              /\ projects' = projects)
          => Synthesized(last'.body) = Synthesized(last.body)]_vars

\* a call made after time has passed, for projects that differ in several
\* files of two directories
C20_Witness ==
    /\ Generated(last)
    /\ last.body.mode2_metadata.generated_from.generated_at > MaxTime
    /\ Cardinality(Elements(last.body.paths.scan)) = 2
    /\ Cardinality(Elements(last.body.paths.include)) >= 3

=============================================================================
